---------------------------- MODULE Spec2Model ----------------------------
(***************************************************************************)
(* The review store of the evidence engine (engine/core/database.py), the  *)
(* stage runners that drive it (engine/agents/screener.py,                 *)
(* engine/parsers/pdf_parser.py, engine/agents/extractor.py,               *)
(* engine/agents/auditor.py), the pipeline that chains them                *)
(* (scripts/run_pipeline.py), the citation deduplicator                    *)
(* (engine/search/dedup.py) and the protocol hashes of the review spec     *)
(* (engine/core/review_spec.py).                                           *)
(*                                                                         *)
(* The store is a single-writer SQLite database: every call runs to its    *)
(* end before the next one starts, so each call is one action.  A stage    *)
(* runner is a loop over papers whose body calls an external collaborator  *)
(* that may raise; it is modelled one collaborator call per step.          *)
(* deduplicate is a loop over two lists; it is modelled one citation per   *)
(* step.                                                                   *)
(***************************************************************************)
EXTENDS Integers, Sequences, FiniteSets, TLC

VARIABLES
    papers,       \* table papers: row i is the paper with id i
    clock,        \* number of _now() readings taken so far
    last,         \* the store call that has just ended, until its caller
                  \* has taken the outcome: its arguments and its outcome
    decisions,    \* table screening_decisions, in id order
    scr,          \* run_screening's frame: position, snapshot, locals, stats
    assets,       \* table full_text_assets, in id order
    extractions,  \* table extractions, in id order
    spans,        \* table evidence_spans, in id order
    ext,          \* run_extraction's frame: position, snapshot, stats
    dd,           \* deduplicate's frame: its indexes, lists and locals
    rspec,        \* the ReviewSpec object in hand
    par,          \* parse_all_pdfs's frame: position, snapshot, stats
    aud,          \* run_audit's frame: position, snapshot, locals, stats
    run           \* run_pipeline: table review_runs and the frame of the
                  \* invocation in progress

vars == <<papers, clock, last, decisions, scr, assets, extractions,
          spans, ext, dd, rspec, par, aud, run>>

----------------------------------------------------------------------------
(* Bounds of the model *)

MaxLifecyclePapers == 2
MaxLifecycleClock == 7
MaxIngestPapers == 3
MaxIngestClock == 2
MaxBatch == 2
MaxScreenPapers == 2
MaxScreenClock == 7
MaxParsePapers == 2
MaxAssets == 4
MaxExtractPapers == 2
MaxExtractions == 3
MaxRunPapers == 1
MaxRunClock == 7
MaxRunExtractions == 2
MaxFields == 1
MaxSpanPapers == 1
MaxSpanExtractions == 1
MaxSpans == 2
MaxSpanClock == 4
MaxDedupCitations == 3
MaxMergeCitations == 3
MaxRules == 1
MaxSchemaFields == 2
MaxStagePapers == 1
MaxStageClock == 7
MaxPipelinePapers == 1
MaxPipelineClock == 7
MaxPipelineRuns == 2
MaxAuditPapers == 1
MaxAuditClock == 8
MaxAuditExtractions == 1
MaxAuditSpans == 1
MaxTextPapers == 1
MaxTextVersions == 10
MaxTextClock == 7

----------------------------------------------------------------------------
(* Values *)

\* Python's None / SQL NULL
NULL == "<None>"

\* the sequences over S of length n at most
RECURSIVE SeqsUpTo(_, _)
SeqsUpTo(S, n) ==
    IF n = 0 THEN {<<>>}
    ELSE LET shorter == SeqsUpTo(S, n - 1)
         IN shorter \cup {Append(s, x) : s \in shorter, x \in S}

PMIDs == {"", "p1"}
DOIs == {"d1"}
Titles == {"t1"}

\* engine/search/models.py Citation, the columns the papers table is keyed on
Citations == [pmid : PMIDs \cup {NULL}, doi : DOIs \cup {NULL}, title : Titles]

\* a citation without identifiers
PlainCitation == [pmid |-> NULL, doi |-> NULL, title |-> "t1"]

STATUSES ==
    {"INGESTED", "SCREENED_IN", "SCREENED_OUT", "SCREEN_FLAGGED",
     "PDF_ACQUIRED", "PARSED", "EXTRACTED", "AUDITED"}

\* a status name that is not in STATUSES
BadStatus == "NONEXISTENT"

ALLOWED_TRANSITIONS_Reopen ==
    [s \in STATUSES |->
        CASE s = "INGESTED" -> {"SCREENED_IN", "SCREENED_OUT", "SCREEN_FLAGGED"}
          [] s = "SCREENED_IN" -> {"PDF_ACQUIRED"}
          [] s = "SCREEN_FLAGGED" -> {"SCREENED_IN", "SCREENED_OUT"}
          [] s = "PDF_ACQUIRED" -> {"PARSED"}
          [] s = "PARSED" -> {"EXTRACTED"}
          [] s = "EXTRACTED" -> {"AUDITED"}
          [] s = "SCREENED_OUT" -> {"SCREENED_IN"}
          [] s = "AUDITED" -> {"EXTRACTED"}]

ALLOWED_TRANSITIONS ==
    [s \in STATUSES |->
        CASE s = "INGESTED" -> {"SCREENED_IN", "SCREENED_OUT", "SCREEN_FLAGGED"}
          [] s = "SCREENED_IN" -> {"PDF_ACQUIRED"}
          [] s = "SCREEN_FLAGGED" -> {"SCREENED_IN", "SCREENED_OUT"}
          [] s = "PDF_ACQUIRED" -> {"PARSED"}
          [] s = "PARSED" -> {"EXTRACTED"}
          [] s = "EXTRACTED" -> {"AUDITED"}
          [] s = "SCREENED_OUT" -> {}
          [] s = "AUDITED" -> {}]

\* the record of a store call; every call fills the fields it has
Call(op, pid, arg, batch, result, ret) ==
    [op |-> op, pid |-> pid, arg |-> arg, batch |-> batch,
     result |-> result, ret |-> ret, rows |-> {}]

NoCall == Call("none", 0, "", <<>>, "ok", 0)

\* run_screening is not running
ScrIdle ==
    [pc |-> "idle", queue |-> <<>>, i |-> 0, d1 |-> "",
     screened_in |-> 0, screened_out |-> 0, flagged |-> 0, total |-> 0]

\* run_extraction is not running; md_file is the version number in the
\* name of md_files[0], 0 when md_files is empty or not yet assigned
ExtIdle ==
    [pc |-> "idle", queue |-> <<>>, i |-> 0, schema_hash |-> "",
     stale |-> {}, md_file |-> 0, extracted |-> 0, skipped |-> 0,
     failed |-> 0, total_spans |-> 0]

\* parse_all_pdfs is not running
ParIdle ==
    [pc |-> "idle", queue |-> <<>>, i |-> 0, parsed |-> 0, failed |-> 0,
     docling |-> 0, minicpm |-> 0]

\* run_audit is not running.  todo is what is left of the local "spans";
\* md_file is the version number in the name of md_files[0], paper_text
\* what it holds, span_data and verdict the locals of the inner loop (id 0
\* and status "" before the first round)
AudIdle ==
    [pc |-> "idle", queue |-> <<>>, i |-> 0, md_file |-> 0,
     paper_text |-> <<>>, ext_id |-> 0, todo |-> <<>>,
     span_data |-> [id |-> 0, value |-> "", source_snippet |-> <<>>],
     verdict |-> [status |-> "", grep_found |-> FALSE, called |-> FALSE],
     papers_audited |-> 0, spans_verified |-> 0,
     spans_flagged |-> 0, grep_failures |-> 0]

\* STAGES = ("search", "screen", "parse", "extract", "audit", "export")
STAGES == <<"search", "screen", "parse", "extract", "audit", "export">>

\* run_pipeline is not running and review_runs is empty.  runs is table
\* review_runs (the status of each row, in id order); stage is the place
\* in the chain of "if start_idx <= ..." (1 to 6, 7 past the last);
\* results is the list of the keys of the local "results", as inserted
RunIdle ==
    [runs |-> <<>>, pc |-> "idle", run_id |-> 0, skip_to |-> "",
     start_idx |-> 0, stage |-> 0, results |-> <<>>]

\* deduplicate's locals before its first loop: empty indexes and lists
DedupStart ==
    [pc |-> "primary", unique |-> <<>>, doi_index |-> <<>>,
     pmid_index |-> <<>>, title_index |-> <<>>, duplicate_pairs |-> <<>>,
     pubmed_total |-> 0, openalex_total |-> 0, cit |-> NULL, match_idx |-> 0,
     stats |-> NULL]

\* a field of the extraction schema
Field(name, tier) == [name |-> name, tier |-> tier, enum_values |-> NULL]

\* a review spec that validates: one tier-1 field, one inclusion rule
BaseSpec ==
    [title |-> "t1", version |-> "v1",
     screening_criteria |-> [inclusion |-> <<"r1">>, exclusion |-> <<>>],
     extraction_schema |-> [fields |-> <<Field("f1", 1)>>]]

Init ==
    /\ papers = <<>>
    /\ clock = 0
    /\ last = NoCall
    /\ decisions = <<>>
    /\ scr = ScrIdle
    /\ assets = <<>>
    /\ extractions = <<>>
    /\ spans = <<>>
    /\ ext = ExtIdle
    /\ dd = DedupStart
    /\ rspec = BaseSpec
    /\ par = ParIdle
    /\ aud = AudIdle
    /\ run = RunIdle

\* single-threaded: a call starts when no call and no stage runner is running
Idle ==
    /\ scr.pc = "idle" /\ ext.pc = "idle"
    /\ par.pc = "idle" /\ aud.pc = "idle"
    /\ last.op = "none"

\* the caller takes the outcome of the call that has ended
Return ==
    /\ last.op # "none"
    /\ last' = NoCall
    /\ UNCHANGED <<papers, clock, decisions, scr, assets, extractions,
                   spans, ext, dd, rspec, par, aud, run>>

----------------------------------------------------------------------------
(* ReviewDatabase.add_papers *)

\* "if cit.pmid:"
Truthy(s) == s # NULL /\ s # ""

\* SELECT id FROM papers WHERE pmid = ?
PmidExists(ps, pmid) == \E i \in 1..Len(ps) : ps[i].pmid = pmid

\* pmid TEXT UNIQUE: NULLs never collide, every other value does
UniqueViolation(ps, cit) ==
    /\ cit.pmid # NULL
    /\ \E i \in 1..Len(ps) : ps[i].pmid = cit.pmid

\* the INSERT of add_papers
NewRow(cit, now) ==
    [pmid |-> cit.pmid, doi |-> cit.doi, title |-> cit.title,
     status |-> "INGESTED", created_at |-> now, updated_at |-> now]

AddOne_NoDedup(acc, cit, now) ==
    [papers |-> Append(acc.papers, NewRow(cit, now)), added |-> acc.added + 1]

AddOne_DoiDedup(acc, cit, now) ==
    IF \/ (Truthy(cit.pmid) /\ PmidExists(acc.papers, cit.pmid))
       \/ \E i \in 1..Len(acc.papers) :
             acc.papers[i].doi = cit.doi /\ acc.papers[i].title = cit.title
    THEN acc
    ELSE IF UniqueViolation(acc.papers, cit)
    THEN acc
    ELSE [papers |-> Append(acc.papers, NewRow(cit, now)),
          added |-> acc.added + 1]

\* one iteration of add_papers' loop; acc is (table, added)
AddOne(acc, cit, now) ==
    IF Truthy(cit.pmid) /\ PmidExists(acc.papers, cit.pmid)
    THEN acc                                       \* continue
    ELSE IF UniqueViolation(acc.papers, cit)
    THEN acc                                       \* IntegrityError: continue
    ELSE [papers |-> Append(acc.papers, NewRow(cit, now)),
          added |-> acc.added + 1]

RECURSIVE AddLoop(_, _, _, _)
AddLoop(acc, batch, k, now) ==
    IF k > Len(batch) THEN acc
    ELSE AddLoop(AddOne(acc, batch[k], now), batch, k + 1, now)

AddPapers(batch) ==
    /\ Idle
    /\ LET r == AddLoop([papers |-> papers, added |-> 0], batch, 1, clock)
       IN /\ papers' = r.papers
          /\ last' = Call("add_papers", 0, "", batch, "ok", r.added)
    /\ clock' = clock + 1
    /\ UNCHANGED <<decisions, scr, assets, extractions,
                   spans, ext, dd, rspec, par, aud, run>>

----------------------------------------------------------------------------
(* ReviewDatabase.update_status *)

TransitionAllowed_Any(current, new_status) == new_status # current

\* "new_status not in allowed" negated
TransitionAllowed(current, new_status) ==
    new_status \in ALLOWED_TRANSITIONS[current]

SetStatus(ps, pid, new_status, now) ==
    [ps EXCEPT ![pid].status = new_status, ![pid].updated_at = now]

UpdateStatusResult_TouchFirst(ps, pid, new_status, now) ==
    IF new_status \notin STATUSES
    THEN [papers |-> ps, result |-> "UnknownStatus"]
    ELSE IF pid \notin 1..Len(ps)
    THEN [papers |-> ps, result |-> "NotFound"]
    ELSE IF ~TransitionAllowed(ps[pid].status, new_status)
    THEN [papers |-> [ps EXCEPT ![pid].updated_at = now],
          result |-> "InvalidTransition"]
    ELSE [papers |-> SetStatus(ps, pid, new_status, now), result |-> "ok"]

\* the table after the call and the way the call ended
UpdateStatusResult(ps, pid, new_status, now) ==
    IF new_status \notin STATUSES
    THEN [papers |-> ps, result |-> "UnknownStatus"]
    ELSE IF pid \notin 1..Len(ps)
    THEN [papers |-> ps, result |-> "NotFound"]
    ELSE IF ~TransitionAllowed(ps[pid].status, new_status)
    THEN [papers |-> ps, result |-> "InvalidTransition"]
    ELSE [papers |-> SetStatus(ps, pid, new_status, now), result |-> "ok"]

UpdateStatus(pid, new_status) ==
    /\ Idle
    /\ LET r == UpdateStatusResult(papers, pid, new_status, clock)
       IN /\ papers' = r.papers
          /\ last' = Call("update_status", pid, new_status, <<>>, r.result, 0)
          \* _now() is read by the UPDATE only
          /\ clock' = IF r.result = "ok" THEN clock + 1 ELSE clock
    /\ UNCHANGED <<decisions, scr, assets, extractions,
                   spans, ext, dd, rspec, par, aud, run>>

----------------------------------------------------------------------------
(* engine/agents/screener.py: run_screening *)

\* ScreeningDecision.decision
Decisions == {"include", "exclude"}

\* ReviewDatabase.get_papers_by_status: the ids, in rowid order
RECURSIVE IdsByStatus(_, _, _)
IdsByStatus(ps, status, k) ==
    IF k > Len(ps) THEN <<>>
    ELSE IF ps[k].status = status
         THEN <<k>> \o IdsByStatus(ps, status, k + 1)
         ELSE IdsByStatus(ps, status, k + 1)

GetPapersByStatus_All(ps, status) == [k \in 1..Len(ps) |-> k]

GetPapersByStatus(ps, status) == IdsByStatus(ps, status, 1)

\* ReviewDatabase.add_screening_decision
AddScreeningDecision(ds, pid, pass_number, decision, now) ==
    Append(ds, [paper_id |-> pid, pass_number |-> pass_number,
                decision |-> decision, decided_at |-> now])

ResolveStatus_AnyInclude(d1, d2) ==
    IF d1 = "include" \/ d2 = "include" THEN "SCREENED_IN"
    ELSE IF d1 = "exclude" /\ d2 = "exclude" THEN "SCREENED_OUT"
    ELSE "SCREEN_FLAGGED"

\* "Resolve agreement"
ResolveStatus(d1, d2) ==
    IF d1 = "include" /\ d2 = "include" THEN "SCREENED_IN"
    ELSE IF d1 = "exclude" /\ d2 = "exclude" THEN "SCREENED_OUT"
    ELSE "SCREEN_FLAGGED"

\* the stats counter that goes with a status
Bump(frame, status) ==
    CASE status = "SCREENED_IN" ->
            [frame EXCEPT !.screened_in = frame.screened_in + 1]
      [] status = "SCREENED_OUT" ->
            [frame EXCEPT !.screened_out = frame.screened_out + 1]
      [] OTHER -> [frame EXCEPT !.flagged = frame.flagged + 1]

\* papers = db.get_papers_by_status("INGESTED"); stats = {...}
ScreenStart ==
    /\ Idle
    /\ LET queue == GetPapersByStatus(papers, "INGESTED")
       IN scr' = [ScrIdle EXCEPT
                     !.pc = IF Len(queue) = 0 THEN "done" ELSE "pass1",
                     !.queue = queue, !.i = 1, !.total = Len(queue)]
    /\ UNCHANGED <<papers, clock, last, decisions, assets, extractions,
                   spans, ext, dd, rspec, par, aud, run>>

\* d1 = screen_paper(..., 1); db.add_screening_decision(pid, 1, ...)
ScreenPass1(d) ==
    /\ scr.pc = "pass1"
    /\ decisions' = AddScreeningDecision(decisions, scr.queue[scr.i], 1, d, clock)
    /\ clock' = clock + 1
    /\ scr' = [scr EXCEPT !.pc = "pass2", !.d1 = d]
    /\ UNCHANGED <<papers, last, assets, extractions,
                   spans, ext, dd, rspec, par, aud, run>>

\* d2 = screen_paper(..., 2); db.add_screening_decision(pid, 2, ...);
\* db.update_status(pid, ...); stats[...] += 1
ScreenPass2(d) ==
    /\ scr.pc = "pass2"
    /\ LET pid == scr.queue[scr.i]
           target == ResolveStatus(scr.d1, d)
           r == UpdateStatusResult(papers, pid, target, clock + 1)
       IN /\ decisions' = AddScreeningDecision(decisions, pid, 2, d, clock)
          /\ papers' = r.papers
          /\ IF r.result = "ok"
             THEN /\ clock' = clock + 2
                  /\ last' = last
                  /\ scr' = [Bump(scr, target) EXCEPT
                               !.pc = IF scr.i = scr.total
                                      THEN "done" ELSE "pass1",
                               !.i = scr.i + 1, !.d1 = ""]
             ELSE \* update_status raised: run_screening ends with it
                  /\ clock' = clock + 1
                  /\ last' = Call("run_screening", pid, "", <<>>, "raised", 0)
                  /\ scr' = ScrIdle
    /\ UNCHANGED <<assets, extractions,
                   spans, ext, dd, rspec, par, aud, run>>

\* screen_paper raises (the model call fails or its answer does not
\* validate); run_screening has no handler, the exception leaves it
ScreenRaise ==
    /\ scr.pc \in {"pass1", "pass2"}
    /\ last' = Call("run_screening", scr.queue[scr.i], "", <<>>, "raised", 0)
    /\ scr' = ScrIdle
    /\ UNCHANGED <<papers, clock, decisions, assets, extractions,
                   spans, ext, dd, rspec, par, aud, run>>

\* return stats
ScreenReturn ==
    /\ scr.pc = "done"
    /\ last' = Call("run_screening", 0, "", <<>>, "ok", scr.total)
    /\ scr' = ScrIdle
    /\ UNCHANGED <<papers, clock, decisions, assets, extractions,
                   spans, ext, dd, rspec, par, aud, run>>

----------------------------------------------------------------------------
(* engine/parsers/pdf_parser.py: parse_pdf *)

\* compute_pdf_hash: the digests of the PDFs a paper's file may hold
Hashes == {"A", "B", "C"}

Max(S) == CHOOSE x \in S : \A y \in S : y <= x

Min(S) == CHOOSE x \in S : \A y \in S : x <= y

AssetsOf(as, pid) == {k \in 1..Len(as) : as[k].paper_id = pid}

ExistingVersion_LatestOnly(as, pid, pdf_hash) ==
    LET mine == AssetsOf(as, pid)
    IN IF mine # {} /\ as[Max(mine)].pdf_hash = pdf_hash
       THEN as[Max(mine)].parsed_text_version
       ELSE 0

\* SELECT parsed_text_version ... WHERE paper_id = ? AND pdf_hash = ?
\* ORDER BY parsed_text_version DESC LIMIT 1; 0 stands for no row
ExistingVersion(as, pid, pdf_hash) ==
    LET vs == {as[k].parsed_text_version :
                  k \in {j \in AssetsOf(as, pid) : as[j].pdf_hash = pdf_hash}}
    IN IF vs = {} THEN 0 ELSE Max(vs)

NextVersion_AllPapers(as, pid) ==
    LET vs == {as[k].parsed_text_version : k \in 1..Len(as)}
    IN (IF vs = {} THEN 0 ELSE Max(vs)) + 1

\* SELECT MAX(parsed_text_version) ... WHERE paper_id = ?; (last or 0) + 1
NextVersion(as, pid) ==
    LET vs == {as[k].parsed_text_version : k \in AssetsOf(as, pid)}
    IN (IF vs = {} THEN 0 ELSE Max(vs)) + 1

\* INSERT INTO full_text_assets
NewAsset(pid, pdf_hash, version) ==
    [paper_id |-> pid, pdf_hash |-> pdf_hash, parsed_text_version |-> version]

\* parse_pdf: the table after the call, the way the call ended and the
\* version it returns; parsed says whether the parser backend returns or
\* raises
ParsePdfResult(as, ps, pid, pdf_hash, parsed) ==
    LET existing == ExistingVersion(as, pid, pdf_hash)
        version == NextVersion(as, pid)
    IN IF existing # 0
       THEN [assets |-> as, result |-> "skipped", version |-> existing]
       ELSE IF ~parsed
       THEN [assets |-> as, result |-> "raised", version |-> 0]
       ELSE IF pid \notin 1..Len(ps)
       THEN \* REFERENCES papers(id) with foreign_keys=ON: IntegrityError
            [assets |-> as, result |-> "raised", version |-> 0]
       ELSE [assets |-> Append(as, NewAsset(pid, pdf_hash, version)),
             result |-> "ok", version |-> version]

ParsePdf(pid, pdf_hash, parsed) ==
    /\ Idle
    /\ LET r == ParsePdfResult(assets, papers, pid, pdf_hash, parsed)
       IN /\ last' = Call("parse_pdf", pid, pdf_hash, <<>>, r.result, r.version)
          /\ assets' = r.assets
    /\ UNCHANGED <<papers, clock, decisions, scr, extractions,
                   spans, ext, dd, rspec, par, aud, run>>

----------------------------------------------------------------------------
(* engine/parsers/pdf_parser.py: parse_all_pdfs *)

\* ParsedDocument.parser_used
Parsers == {"docling", "minicpm-v"}

\* the loop moves to the next paper of its snapshot
ParAdvance(frame) ==
    [frame EXCEPT !.i = frame.i + 1,
                  !.pc = IF frame.i = Len(frame.queue) THEN "done" ELSE "loop"]

\* papers = db.get_papers_by_status("PDF_ACQUIRED"); stats = {...}
ParseAllStart ==
    /\ Idle
    /\ LET queue == GetPapersByStatus(papers, "PDF_ACQUIRED")
       IN par' = [ParIdle EXCEPT
                     !.pc = IF Len(queue) = 0 THEN "done" ELSE "loop",
                     !.queue = queue, !.i = 1]
    /\ UNCHANGED <<papers, clock, last, decisions, scr, assets, extractions,
                   spans, ext, dd, rspec, aud, run>>

\* "if not pdf_candidates: stats['failed'] += 1; continue"
ParseAllNoPdf ==
    /\ par.pc = "loop"
    /\ par' = ParAdvance([par EXCEPT !.failed = par.failed + 1])
    /\ UNCHANGED <<papers, clock, last, decisions, scr, assets, extractions,
                   spans, ext, dd, rspec, aud, run>>

\* the try block, for a PDF with digest pdf_hash: parse_pdf, the parser
\* counter, update_status(pid, "PARSED"), stats["parsed"]; "except
\* Exception" counts the paper as failed.  parser_used is what a new parse
\* reports; the early return of parse_pdf always reports "docling"
ParseAllTry(pdf_hash, parsed, parser_used) ==
    /\ par.pc = "loop"
    /\ LET pid == par.queue[par.i]
           r == ParsePdfResult(assets, papers, pid, pdf_hash, parsed)
           used == IF r.result = "skipped" THEN "docling" ELSE parser_used
           counted == IF used = "docling"
                      THEN [par EXCEPT !.docling = par.docling + 1]
                      ELSE [par EXCEPT !.minicpm = par.minicpm + 1]
           u == UpdateStatusResult(papers, pid, "PARSED", clock)
       IN /\ assets' = r.assets
          /\ IF r.result = "raised"
             THEN /\ papers' = papers
                  /\ clock' = clock
                  /\ par' = ParAdvance([par EXCEPT !.failed = par.failed + 1])
             ELSE /\ papers' = u.papers
                  /\ IF u.result = "ok"
                     THEN /\ clock' = clock + 1
                          /\ par' = ParAdvance([counted EXCEPT
                                        !.parsed = counted.parsed + 1])
                     ELSE /\ clock' = clock
                          /\ par' = ParAdvance([counted EXCEPT
                                        !.failed = counted.failed + 1])
    /\ UNCHANGED <<last, decisions, scr, extractions,
                   spans, ext, dd, rspec, aud, run>>

\* return stats
ParseAllReturn ==
    /\ par.pc = "done"
    /\ last' = Call("parse_all_pdfs", 0, "", <<>>, "ok", par.parsed)
    /\ par' = ParIdle
    /\ UNCHANGED <<papers, clock, decisions, scr, assets, extractions,
                   spans, ext, dd, rspec, aud, run>>

----------------------------------------------------------------------------
(* ReviewDatabase.add_extraction, get_stale_extractions *)

\* values of ExtractionSchema's hash
SchemaHashes == {"h1", "h2"}

ExtractionsOf(es, pid) == {k \in 1..Len(es) : es[k].paper_id = pid}

AddExtraction(pid, schema_hash) ==
    /\ Idle
    /\ IF pid \notin 1..Len(papers)
       THEN \* REFERENCES papers(id) with foreign_keys=ON: IntegrityError
            /\ last' = Call("add_extraction", pid, schema_hash, <<>>, "raised", 0)
            /\ UNCHANGED <<extractions, clock>>
       ELSE /\ extractions' =
                  Append(extractions,
                         [paper_id |-> pid, extraction_schema_hash |-> schema_hash,
                          extracted_at |-> clock])
            /\ clock' = clock + 1
            /\ last' = Call("add_extraction", pid, schema_hash, <<>>, "ok",
                            Len(extractions) + 1)
    /\ UNCHANGED <<papers, decisions, scr, assets,
                   spans, ext, dd, rspec, par, aud, run>>

StaleRows_First(ps, es, current_hash) ==
    {p \in 1..Len(ps) :
        \E e \in 1..Len(es) :
            /\ es[e].paper_id = p
            /\ es[e].extraction_schema_hash # current_hash
            /\ e = Min(ExtractionsOf(es, p))}

\* papers p JOIN extractions e ON e.paper_id = p.id
\* WHERE e.extraction_schema_hash != ? AND e.id = (SELECT MAX(e2.id) ...)
StaleRows(ps, es, current_hash) ==
    {p \in 1..Len(ps) :
        \E e \in 1..Len(es) :
            /\ es[e].paper_id = p
            /\ es[e].extraction_schema_hash # current_hash
            /\ e = Max(ExtractionsOf(es, p))}

GetStaleExtractions(current_hash) ==
    /\ Idle
    /\ last' = [Call("get_stale_extractions", 0, current_hash, <<>>, "ok", 0)
                   EXCEPT !.rows = StaleRows(papers, extractions, current_hash)]
    /\ UNCHANGED <<papers, clock, decisions, scr, assets, extractions,
                   spans, ext, dd, rspec, par, aud, run>>

----------------------------------------------------------------------------
(* ReviewDatabase.add_evidence_span, update_audit *)

\* CHECK (audit_status IN ('pending', 'verified', 'flagged'))
AUDIT_STATUSES == {"pending", "verified", "flagged"}

\* a value the CHECK constraint refuses
BadAuditStatus == "unknown"

\* INSERT INTO evidence_spans (...) VALUES (?, ?, ?, ?, ?, 'pending')
NewSpan(extraction_id) ==
    [extraction_id |-> extraction_id, audit_status |-> "pending",
     audited_at |-> NULL]

AddEvidenceSpan(extraction_id) ==
    /\ Idle
    /\ IF extraction_id \notin 1..Len(extractions)
       THEN \* REFERENCES extractions(id) with foreign_keys=ON: IntegrityError
            /\ last' = Call("add_evidence_span", extraction_id, "", <<>>,
                            "raised", 0)
            /\ spans' = spans
       ELSE /\ spans' = Append(spans, NewSpan(extraction_id))
            /\ last' = Call("add_evidence_span", extraction_id, "", <<>>,
                            "ok", Len(spans) + 1)
    /\ UNCHANGED <<papers, clock, decisions, scr, assets, extractions,
                   ext, dd, rspec, par, aud, run>>

\* UPDATE evidence_spans SET audit_status = ?, ..., audited_at = ?
\* WHERE id = ?: no row, no change
SetAudit(sp, span_id, status, now) ==
    IF span_id \in 1..Len(sp)
    THEN [sp EXCEPT ![span_id].audit_status = status,
                    ![span_id].audited_at = now]
    ELSE sp

\* update_audit; _now() is read before the UPDATE runs
UpdateAudit(span_id, status) ==
    /\ Idle
    /\ clock' = clock + 1
    /\ IF span_id \in 1..Len(spans) /\ status \notin AUDIT_STATUSES
       THEN \* the CHECK constraint fails: IntegrityError
            /\ last' = Call("update_audit", span_id, status, <<>>, "raised", 0)
            /\ spans' = spans
       ELSE /\ last' = Call("update_audit", span_id, status, <<>>, "ok", 0)
            /\ spans' = SetAudit(spans, span_id, status, clock)
    /\ UNCHANGED <<papers, decisions, scr, assets, extractions,
                   ext, dd, rspec, par, aud, run>>

----------------------------------------------------------------------------
(* engine/agents/extractor.py: extract_paper, run_extraction *)

\* A file name is the sequence of the code points of its characters.
\* str(n) for n >= 0
RECURSIVE Digits(_)
Digits(n) ==
    IF n < 10 THEN <<48 + n>> ELSE Digits(n \div 10) \o <<48 + (n % 10)>>

\* f"{paper_id}_v{version}.md"
MdName(pid, version) ==
    Digits(pid) \o <<95, 118>> \o Digits(version) \o <<46, 109, 100>>

\* a < b for two str (or two paths of one directory): the first position
\* where they differ decides, a proper prefix comes first
RECURSIVE StrLess(_, _)
StrLess(a, b) ==
    IF b = <<>> THEN FALSE
    ELSE IF a = <<>> THEN TRUE
    ELSE IF a[1] # b[1] THEN a[1] < b[1]
    ELSE StrLess(Tail(a), Tail(b))

\* the versions of the files parsed_dir.glob(f"{pid}_v*.md") finds:
\* parse_pdf writes {pid}_v{n}.md for every asset row it inserts
MdVersions(as, pid) == {as[k].parsed_text_version : k \in AssetsOf(as, pid)}

\* sorted(parsed_dir.glob(f"{pid}_v*.md"), reverse=True)[0]: the version
\* of the file whose name is the greatest; 0 when md_files is empty
MdFile(as, pid) ==
    LET vs == MdVersions(as, pid)
    IN IF vs = {} THEN 0
       ELSE CHOOSE v \in vs :
              \A w \in vs \ {v} : StrLess(MdName(pid, w), MdName(pid, v))

\* "if not md_files" negated
PaperHasText(pid) == MdFile(assets, pid) # 0

ExistingExtraction_Never(es, pid, schema_hash) == FALSE

\* SELECT id FROM extractions WHERE paper_id = ?
\* AND extraction_schema_hash = ?
ExistingExtraction(es, pid, schema_hash) ==
    \E k \in ExtractionsOf(es, pid) :
        es[k].extraction_schema_hash = schema_hash

\* INSERT INTO extractions, as add_extraction writes it
ExtractionRow(pid, schema_hash, now) ==
    [paper_id |-> pid, extraction_schema_hash |-> schema_hash,
     extracted_at |-> now]

\* "for span in result.fields: db.add_evidence_span(...)", n spans stored
RECURSIVE AddSpans(_, _, _)
AddSpans(sp, ext_id, n) ==
    IF n = 0 THEN sp ELSE AddSpans(Append(sp, NewSpan(ext_id)), ext_id, n - 1)

\* the loop moves to the next paper of its snapshot
ExtAdvance(frame) ==
    [frame EXCEPT !.i = frame.i + 1,
                  !.pc = IF frame.i = Len(frame.queue) THEN "done" ELSE "loop"]

\* papers = db.get_papers_by_status("PARSED");
\* schema_hash = spec.extraction_hash(); stats = {...}
\* stale is no local of the code: it records what get_stale_extractions
\* would have returned when the run began
ExtractStart(schema_hash) ==
    /\ Idle
    /\ LET queue == GetPapersByStatus(papers, "PARSED")
       IN ext' = [ExtIdle EXCEPT
                     !.pc = IF Len(queue) = 0 THEN "done" ELSE "loop",
                     !.queue = queue, !.i = 1, !.schema_hash = schema_hash,
                     !.stale = StaleRows(papers, extractions, schema_hash)]
    /\ UNCHANGED <<papers, clock, last, decisions, scr, assets, extractions,
                   spans, dd, rspec, par, aud, run>>

\* "if existing: stats['skipped'] += 1; continue"
ExtractSkip ==
    /\ ext.pc = "loop"
    /\ ExistingExtraction(extractions, ext.queue[ext.i], ext.schema_hash)
    /\ ext' = ExtAdvance([ext EXCEPT !.skipped = ext.skipped + 1])
    /\ UNCHANGED <<papers, clock, last, decisions, scr, assets, extractions,
                   spans, dd, rspec, par, aud, run>>

\* "if not md_files: stats['failed'] += 1; continue"
ExtractNoText ==
    /\ ext.pc = "loop"
    /\ ~ExistingExtraction(extractions, ext.queue[ext.i], ext.schema_hash)
    /\ ~PaperHasText(ext.queue[ext.i])
    /\ ext' = ExtAdvance([ext EXCEPT !.md_file = 0,
                                     !.failed = ext.failed + 1])
    /\ UNCHANGED <<papers, clock, last, decisions, scr, assets, extractions,
                   spans, dd, rspec, par, aud, run>>

\* the paper reaches the try block
ExtractTries ==
    /\ ext.pc = "loop"
    /\ ~ExistingExtraction(extractions, ext.queue[ext.i], ext.schema_hash)
    /\ PaperHasText(ext.queue[ext.i])

\* extract_pass1_reasoning or extract_pass2_structured raises (the model
\* call fails or its answer does not validate): "except Exception"
ExtractModelRaise ==
    /\ ExtractTries
    /\ ext' = ExtAdvance([ext EXCEPT
                  !.md_file = MdFile(assets, ext.queue[ext.i]),
                  !.failed = ext.failed + 1])
    /\ UNCHANGED <<papers, clock, last, decisions, scr, assets, extractions,
                   spans, dd, rspec, par, aud, run>>

\* both passes answer, with n fields: add_extraction, n add_evidence_span,
\* update_status(pid, "EXTRACTED"), stats
ExtractOk(n) ==
    /\ ExtractTries
    /\ LET pid == ext.queue[ext.i]
           r == UpdateStatusResult(papers, pid, "EXTRACTED", clock + 1)
       IN /\ extractions' =
                Append(extractions, ExtractionRow(pid, ext.schema_hash, clock))
          /\ spans' = AddSpans(spans, Len(extractions) + 1, n)
          /\ papers' = r.papers
          /\ IF r.result = "ok"
             THEN /\ clock' = clock + 2
                  /\ ext' = ExtAdvance([ext EXCEPT
                                !.md_file = MdFile(assets, pid),
                                !.extracted = ext.extracted + 1,
                                !.total_spans = ext.total_spans + n])
             ELSE \* update_status raised: "except Exception"
                  /\ clock' = clock + 1
                  /\ ext' = ExtAdvance([ext EXCEPT
                                !.md_file = MdFile(assets, pid),
                                !.failed = ext.failed + 1])
    /\ UNCHANGED <<last, decisions, scr, assets, dd, rspec, par, aud, run>>

\* both passes answer, with n fields; the extraction row and k < n spans
\* are committed, then a store write raises sqlite3.Error (locked database,
\* full disk): "except Exception"
ExtractStoreRaise(n, k) ==
    /\ ExtractTries
    /\ k < n
    /\ LET pid == ext.queue[ext.i]
       IN /\ extractions' =
                Append(extractions, ExtractionRow(pid, ext.schema_hash, clock))
          /\ spans' = AddSpans(spans, Len(extractions) + 1, k)
    /\ clock' = clock + 1
    /\ ext' = ExtAdvance([ext EXCEPT
                  !.md_file = MdFile(assets, ext.queue[ext.i]),
                  !.failed = ext.failed + 1])
    /\ UNCHANGED <<papers, last, decisions, scr, assets, dd, rspec,
                   par, aud, run>>

\* return stats
ExtractReturn ==
    /\ ext.pc = "done"
    /\ last' = Call("run_extraction", 0, ext.schema_hash, <<>>, "ok",
                    ext.extracted)
    /\ ext' = ExtIdle
    /\ UNCHANGED <<papers, clock, decisions, scr, assets, extractions,
                   spans, dd, rspec, par, aud, run>>

----------------------------------------------------------------------------
(* engine/search/dedup.py: strings *)

\* A string of a citation is the sequence of its characters; the model's
\* alphabet is a-f, x, y, A, D, 1, the space and the full stop.
\* None, for an Optional[str] field
NoneS == <<NULL>>

\* "if cit.doi:": neither None nor the empty string
TruthyS(s) == s # NoneS /\ s # <<>>

\* str.lower, character by character
LowerChar(c) ==
    CASE c = "A" -> "a"
      [] c = "D" -> "d"
      [] OTHER -> c

Lower(s) == [k \in 1..Len(s) |-> LowerChar(s[k])]

\* \s
IsSpace(c) == c = " "

\* \w
IsWord(c) == c \in {"a", "b", "c", "d", "e", "f", "x", "y", "A", "D", "1"}

\* str.strip: leading and trailing whitespace removed
RECURSIVE Strip(_)
Strip(s) ==
    IF s = <<>> THEN s
    ELSE IF IsSpace(s[1]) THEN Strip(Tail(s))
    ELSE IF IsSpace(s[Len(s)]) THEN Strip(SubSeq(s, 1, Len(s) - 1))
    ELSE s

\* cit.doi.strip().lower()
DoiKey(doi) == Lower(Strip(doi))

\* cit.pmid.strip()
PmidKey(pmid) == Strip(pmid)

\* re.sub(r"[^\w\s]", "", title)
RECURSIVE RemovePunctuation(_)
RemovePunctuation(s) ==
    IF s = <<>> THEN s
    ELSE IF IsWord(s[1]) \/ IsSpace(s[1])
         THEN <<s[1]>> \o RemovePunctuation(Tail(s))
         ELSE RemovePunctuation(Tail(s))

\* re.sub(r"\s+", " ", title)
RECURSIVE CollapseSpaces(_)
CollapseSpaces(s) ==
    IF Len(s) < 2 THEN s
    ELSE IF IsSpace(s[1]) /\ IsSpace(s[2]) THEN CollapseSpaces(Tail(s))
    ELSE <<s[1]>> \o CollapseSpaces(Tail(s))

normalize_title(title) ==
    Strip(CollapseSpaces(RemovePunctuation(Lower(title))))

\* a[i..i+k-1] = b[j..j+k-1]
CommonBlock(a, b, i, j, k) ==
    /\ i + k - 1 <= Len(a)
    /\ j + k - 1 <= Len(b)
    /\ \A d \in 0..(k - 1) : a[i + d] = b[j + d]

\* the length of the longest common block that is no longer than k
RECURSIVE LongestLen(_, _, _)
LongestLen(a, b, k) ==
    IF k = 0 THEN 0
    ELSE IF \E i \in 1..Len(a), j \in 1..Len(b) : CommonBlock(a, b, i, j, k)
    THEN k
    ELSE LongestLen(a, b, k - 1)

\* SequenceMatcher.find_longest_match: <<i, j, k>> for the longest block
\* a[i..i+k-1] = b[j..j+k-1]; of the longest, the one that starts earliest
\* in a, and of those the one that starts earliest in b; k = 0 when no
\* character matches
LongestMatch(a, b) ==
    LET k == LongestLen(a, b, IF Len(a) < Len(b) THEN Len(a) ELSE Len(b))
        i == Min({x \in 1..Len(a) :
                    \E y \in 1..Len(b) : CommonBlock(a, b, x, y, k)})
        j == Min({y \in 1..Len(b) : CommonBlock(a, b, i, y, k)})
    IN IF k = 0 THEN <<0, 0, 0>> ELSE <<i, j, k>>

\* SequenceMatcher.get_matching_blocks: the matched characters, the longest
\* block first and then the same to its left and to its right
RECURSIVE MatchedChars(_, _)
MatchedChars(a, b) ==
    LET m == LongestMatch(a, b)
    IN IF m[3] = 0 THEN 0
       ELSE m[3]
            + MatchedChars(SubSeq(a, 1, m[1] - 1), SubSeq(b, 1, m[2] - 1))
            + MatchedChars(SubSeq(a, m[1] + m[3], Len(a)),
                           SubSeq(b, m[2] + m[3], Len(b)))

\* title_similarity(t1, t2) > 0.9, where ratio() is 2.0 * M / T and 1.0
\* for two empty strings: 2M/T > 9/10 in integers
Similar(t1, t2) ==
    LET T == Len(t1) + Len(t2)
    IN IF T = 0 THEN TRUE ELSE 20 * MatchedChars(t1, t2) > 9 * T

----------------------------------------------------------------------------
(* engine/search/dedup.py: deduplicate, _find_match, _merge *)

\* Python dict: d[key] = idx
Put(index, key, idx) == (key :> idx) @@ index

\* "for existing_title, idx in title_index: if title_similarity(...) > 0.9:
\* return idx"; 0 stands for None
RECURSIVE FirstSimilar(_, _, _)
FirstSimilar(norm, title_index, k) ==
    IF k > Len(title_index) THEN 0
    ELSE IF Similar(norm, title_index[k][1]) THEN title_index[k][2]
    ELSE FirstSimilar(norm, title_index, k + 1)

FindMatch_PmidFirst(cit, doi_index, pmid_index, title_index) ==
    IF TruthyS(cit.pmid) /\ PmidKey(cit.pmid) \in DOMAIN pmid_index
    THEN pmid_index[PmidKey(cit.pmid)]
    ELSE IF TruthyS(cit.doi) /\ DoiKey(cit.doi) \in DOMAIN doi_index
    THEN doi_index[DoiKey(cit.doi)]
    ELSE FirstSimilar(normalize_title(cit.title), title_index, 1)

\* _find_match: DOI, then PMID, then fuzzy title; 0 stands for None
FindMatch(cit, doi_index, pmid_index, title_index) ==
    IF TruthyS(cit.doi) /\ DoiKey(cit.doi) \in DOMAIN doi_index
    THEN doi_index[DoiKey(cit.doi)]
    ELSE IF TruthyS(cit.pmid) /\ PmidKey(cit.pmid) \in DOMAIN pmid_index
    THEN pmid_index[PmidKey(cit.pmid)]
    ELSE FirstSimilar(normalize_title(cit.title), title_index, 1)

\* "if data.get(field) is None and getattr(secondary, field) is not None"
Fill(kept, other) == IF kept = NoneS /\ other # NoneS THEN other ELSE kept

Merge_SecondaryWins(primary, secondary) ==
    [primary EXCEPT
        !.doi = Fill(secondary.doi, primary.doi),
        !.pmid = Fill(secondary.pmid, primary.pmid),
        !.abstract = Fill(secondary.abstract, primary.abstract),
        !.journal = Fill(secondary.journal, primary.journal),
        !.year = Fill(secondary.year, primary.year),
        !.authors = IF secondary.authors # <<>>
                    THEN secondary.authors ELSE primary.authors]

\* _merge: the kept record with its None fields, and its empty author list,
\* filled from the secondary
Merge(primary, secondary) ==
    [primary EXCEPT
        !.doi = Fill(primary.doi, secondary.doi),
        !.pmid = Fill(primary.pmid, secondary.pmid),
        !.abstract = Fill(primary.abstract, secondary.abstract),
        !.journal = Fill(primary.journal, secondary.journal),
        !.year = Fill(primary.year, secondary.year),
        !.authors = IF primary.authors = <<>> /\ secondary.authors # <<>>
                    THEN secondary.authors ELSE primary.authors]

Indexed_TitleOnly(frame, cit, idx) ==
    [frame EXCEPT
        !.title_index = Append(@, <<normalize_title(cit.title), idx>>)]

\* "if cit.doi: doi_index[...] = idx; if cit.pmid: pmid_index[...] = idx;
\* title_index.append((normalize_title(cit.title), idx))"
Indexed(frame, cit, idx) ==
    [frame EXCEPT
        !.doi_index = IF TruthyS(cit.doi)
                      THEN Put(frame.doi_index, DoiKey(cit.doi), idx) ELSE @,
        !.pmid_index = IF TruthyS(cit.pmid)
                       THEN Put(frame.pmid_index, PmidKey(cit.pmid), idx) ELSE @,
        !.title_index = Append(@, <<normalize_title(cit.title), idx>>)]

\* one turn of "for cit in pubmed_citations"
DedupPrimary(cit) ==
    /\ dd.pc = "primary"
    /\ dd' = [Indexed(dd, cit, Len(dd.unique) + 1) EXCEPT
                 !.unique = Append(dd.unique, cit),
                 !.pubmed_total = dd.pubmed_total + 1,
                 !.cit = cit]
    /\ UNCHANGED <<papers, clock, last, decisions, scr, assets, extractions,
                   spans, ext, rspec, par, aud, run>>

\* one turn of "for oa_cit in openalex_citations"
DedupSecondary(oa_cit) ==
    /\ dd.pc \in {"primary", "secondary"}
    /\ LET match_idx == FindMatch(oa_cit, dd.doi_index, dd.pmid_index,
                                  dd.title_index)
           merged == Merge(dd.unique[match_idx], oa_cit)
           seen == [dd EXCEPT !.pc = "secondary",
                              !.openalex_total = dd.openalex_total + 1,
                              !.cit = oa_cit, !.match_idx = match_idx]
       IN dd' = IF match_idx # 0
                THEN [seen EXCEPT
                        !.unique[match_idx] = merged,
                        !.duplicate_pairs =
                            Append(@, <<merged.title, oa_cit.title>>)]
                ELSE [Indexed(seen, oa_cit, Len(dd.unique) + 1) EXCEPT
                        !.unique = Append(dd.unique, oa_cit)]
    /\ UNCHANGED <<papers, clock, last, decisions, scr, assets, extractions,
                   spans, ext, rspec, par, aud, run>>

DedupStats_CountMatches(frame) ==
    [pubmed_total |-> frame.pubmed_total,
     openalex_total |-> frame.openalex_total,
     duplicates_found |-> Len(frame.duplicate_pairs),
     unique_total |-> frame.pubmed_total + frame.openalex_total]

\* stats = {"pubmed_total": len(pubmed_citations), ...}
DedupStats(frame) ==
    [pubmed_total |-> frame.pubmed_total,
     openalex_total |-> frame.openalex_total,
     duplicates_found |-> Len(frame.duplicate_pairs),
     unique_total |-> Len(frame.unique)]

\* stats = {...}; return DedupResult(...)
DedupReturn ==
    /\ dd.pc \in {"primary", "secondary"}
    /\ dd' = [dd EXCEPT !.pc = "done", !.stats = DedupStats(dd)]
    /\ UNCHANGED <<papers, clock, last, decisions, scr, assets, extractions,
                   spans, ext, rspec, par, aud, run>>

----------------------------------------------------------------------------
(* engine/core/review_spec.py: screening_hash, extraction_hash *)

\* json.dumps(data, sort_keys=True): the members of the object in the
\* order of their sorted keys, each with its value
CanonicalJson(data, sorted_keys) ==
    [k \in 1..Len(sorted_keys) |-> <<sorted_keys[k], data[sorted_keys[k]]>>]

\* hashlib.sha256(blob).hexdigest(); SHA-256 is taken to be free of
\* collisions, so a digest stands for the one blob it was computed from
Sha256(blob) == <<"sha256", blob>>

\* ScreeningCriteria.model_dump() in canonical form
ScreeningBlob(criteria) == CanonicalJson(criteria, <<"exclusion", "inclusion">>)

\* ExtractionSchema.model_dump() in canonical form
SchemaBlob(schema) ==
    CanonicalJson(
        [fields |-> [k \in 1..Len(schema.fields) |->
                        CanonicalJson(schema.fields[k],
                                      <<"enum_values", "name", "tier">>)]],
        <<"fields">>)

screening_hash_WholeSpec(spec) ==
    Sha256(CanonicalJson(
        [screening_criteria |-> ScreeningBlob(spec.screening_criteria),
         title |-> spec.title, version |-> spec.version],
        <<"screening_criteria", "title", "version">>))

\* ReviewSpec.screening_hash
screening_hash(spec) == Sha256(ScreeningBlob(spec.screening_criteria))

\* ReviewSpec.extraction_hash
extraction_hash(spec) == Sha256(SchemaBlob(spec.extraction_schema))

\* the values a review spec is built from
Rules == {"r1", "r2"}

SchemaFieldValues == {Field("f1", 1), Field("f2", 2)}

SpecTitles == {"t1", "t2"}

SpecVersions == {"v1", "v2"}

ScreeningCriteriaSet ==
    [inclusion : SeqsUpTo(Rules, MaxRules),
     exclusion : SeqsUpTo(Rules, MaxRules)]

\* ExtractionSchema with its validator: at least one tier-1 field
ExtractionSchemas ==
    {[fields |-> fs] :
        fs \in {f \in SeqsUpTo(SchemaFieldValues, MaxSchemaFields) :
                   \E k \in 1..Len(f) : f[k].tier = 1}}

ReviewSpecs ==
    [title : SpecTitles, version : SpecVersions,
     screening_criteria : ScreeningCriteriaSet,
     extraction_schema : ExtractionSchemas]

\* list.append, list.insert(0, x), list.pop(), list.pop(0)
Grown(s, t) ==
    /\ Len(t) = Len(s) + 1
    /\ (SubSeq(t, 1, Len(s)) = s \/ Tail(t) = s)

OneEdit(s, t) == Grown(s, t) \/ Grown(t, s)

\* modified = spec.model_copy(deep=True), then one list of one section
\* gains or loses an element
EditScreening ==
    /\ \E criteria \in ScreeningCriteriaSet :
          /\ \/ /\ OneEdit(rspec.screening_criteria.inclusion,
                             criteria.inclusion)
                /\ criteria.exclusion = rspec.screening_criteria.exclusion
             \/ /\ OneEdit(rspec.screening_criteria.exclusion,
                             criteria.exclusion)
                /\ criteria.inclusion = rspec.screening_criteria.inclusion
          /\ rspec' = [rspec EXCEPT !.screening_criteria = criteria]
    /\ UNCHANGED <<papers, clock, last, decisions, scr, assets, extractions,
                   spans, ext, dd, par, aud, run>>

EditExtraction ==
    /\ \E schema \in ExtractionSchemas :
          /\ OneEdit(rspec.extraction_schema.fields, schema.fields)
          /\ rspec' = [rspec EXCEPT !.extraction_schema = schema]
    /\ UNCHANGED <<papers, clock, last, decisions, scr, assets, extractions,
                   spans, ext, dd, par, aud, run>>

EditOther ==
    /\ \E title \in SpecTitles, version \in SpecVersions :
          /\ <<title, version>> # <<rspec.title, rspec.version>>
          /\ rspec' = [rspec EXCEPT !.title = title, !.version = version]
    /\ UNCHANGED <<papers, clock, last, decisions, scr, assets, extractions,
                   spans, ext, dd, par, aud, run>>

----------------------------------------------------------------------------
(* engine/agents/auditor.py: grep_verify, audit_span *)

\* _normalize: _WS_RE.sub(" ", text.lower()).strip()
Normalize(text) == Strip(CollapseSpaces(Lower(text)))

\* a in b, for two str
IsSubstring(a, b) ==
    \E i \in 1..(Len(b) + 1) : CommonBlock(a, b, 1, i, Len(a))

\* str.split() of a normalised string: the words between single spaces
RECURSIVE Split(_, _)
Split(s, word) ==
    IF s = <<>> THEN (IF word = <<>> THEN <<>> ELSE <<word>>)
    ELSE IF IsSpace(s[1])
         THEN (IF word = <<>> THEN <<>> ELSE <<word>>) \o Split(Tail(s), <<>>)
         ELSE Split(Tail(s), Append(word, s[1]))

\* " ".join(words)
RECURSIVE Join(_)
Join(words) ==
    IF words = <<>> THEN <<>>
    ELSE IF Len(words) = 1 THEN words[1]
    ELSE words[1] \o <<" ">> \o Join(Tail(words))

\* SequenceMatcher(None, a, b).ratio() > 0.85: 2M/T > 17/20 in integers
FuzzyMatch(a, b) ==
    LET T == Len(a) + Len(b)
    IN IF T = 0 THEN TRUE ELSE 40 * MatchedChars(a, b) > 17 * T

\* grep_verify: exact substring of the normalised text, or a window of as
\* many words as the snippet has whose ratio is above 0.85
GrepVerify(source_snippet, paper_text) ==
    IF ~TruthyS(source_snippet) \/ ~TruthyS(paper_text) THEN FALSE
    ELSE LET norm_snippet == Normalize(source_snippet)
             norm_text == Normalize(paper_text)
             text_words == Split(norm_text, <<>>)
             window_size == Len(Split(norm_snippet, <<>>))
             last_start == Max({1, Len(text_words) - window_size + 1})
         IN IF IsSubstring(norm_snippet, norm_text) THEN TRUE
            ELSE IF Len(norm_snippet) = 0 \/ window_size = 0 THEN FALSE
            ELSE \E i \in 1..last_start :
                    FuzzyMatch(norm_snippet,
                               Join(SubSeq(text_words, i,
                                           Min({Len(text_words),
                                                i + window_size - 1}))))

\* AuditVerdict; called is no field of the code: it records whether
\* semantic_verify was reached
Verdict(status, grep_found, called) ==
    [status |-> status, grep_found |-> grep_found, called |-> called]

AuditSpan_TrustModel(span_data, paper_text, answer) ==
    IF span_data.value = "NOT_FOUND"
    THEN Verdict("verified", FALSE, FALSE)
    ELSE IF ~GrepVerify(span_data.source_snippet, paper_text)
    THEN Verdict("flagged", FALSE, FALSE)
    ELSE Verdict(answer.status, answer.grep_found, TRUE)

\* audit_span; answer is the AuditVerdict semantic_verify returns when it
\* is reached
AuditSpan(span_data, paper_text, answer) ==
    IF span_data.value = "NOT_FOUND"
    THEN Verdict("verified", FALSE, FALSE)
    ELSE IF ~GrepVerify(span_data.source_snippet, paper_text)
    THEN Verdict("flagged", FALSE, FALSE)
    ELSE Verdict(answer.status, TRUE, TRUE)

----------------------------------------------------------------------------
(* engine/agents/auditor.py: run_audit *)

\* the loop moves to the next paper of its snapshot
AudAdvance(frame) ==
    [frame EXCEPT !.i = frame.i + 1, !.todo = <<>>,
                  !.pc = IF frame.i = Len(frame.queue) THEN "done" ELSE "loop"]

\* SELECT id FROM extractions WHERE paper_id = ? ORDER BY id DESC LIMIT 1;
\* 0 stands for no row
LatestExtraction(es, pid) ==
    IF ExtractionsOf(es, pid) = {} THEN 0 ELSE Max(ExtractionsOf(es, pid))

\* the ids of a set, in id order
RECURSIVE InOrder(_)
InOrder(S) == IF S = {} THEN <<>> ELSE <<Min(S)>> \o InOrder(S \ {Min(S)})

PendingSpans_Verified(sp, ext_id) ==
    InOrder({k \in 1..Len(sp) :
                sp[k].extraction_id = ext_id /\ sp[k].audit_status = "verified"})

\* SELECT * FROM evidence_spans WHERE extraction_id = ?
\* AND audit_status = 'pending'
PendingSpans(sp, ext_id) ==
    InOrder({k \in 1..Len(sp) :
                sp[k].extraction_id = ext_id /\ sp[k].audit_status = "pending"})

\* papers = db.get_papers_by_status("EXTRACTED"); stats = {...}
AuditStart ==
    /\ Idle
    /\ LET queue == GetPapersByStatus(papers, "EXTRACTED")
       IN aud' = [AudIdle EXCEPT
                     !.pc = IF Len(queue) = 0 THEN "done" ELSE "loop",
                     !.queue = queue, !.i = 1]
    /\ UNCHANGED <<papers, clock, last, decisions, scr, assets, extractions,
                   spans, ext, dd, rspec, par, run>>

\* "if not md_files: continue"
AuditNoText ==
    /\ aud.pc = "loop"
    /\ ~PaperHasText(aud.queue[aud.i])
    /\ aud' = AudAdvance([aud EXCEPT !.md_file = 0])
    /\ UNCHANGED <<papers, clock, last, decisions, scr, assets, extractions,
                   spans, ext, dd, rspec, par, run>>

\* paper_text = md_files[0].read_text(), the file holding text;
\* "if not extraction: continue"
AuditNoExtraction(text) ==
    /\ aud.pc = "loop"
    /\ PaperHasText(aud.queue[aud.i])
    /\ LatestExtraction(extractions, aud.queue[aud.i]) = 0
    /\ aud' = AudAdvance([aud EXCEPT
                  !.md_file = MdFile(assets, aud.queue[aud.i]),
                  !.paper_text = text])
    /\ UNCHANGED <<papers, clock, last, decisions, scr, assets, extractions,
                   spans, ext, dd, rspec, par, run>>

\* paper_text = md_files[0].read_text(), the file holding text;
\* ext_id = extraction["id"]; spans = ... .fetchall()
AuditFetch(text) ==
    /\ aud.pc = "loop"
    /\ PaperHasText(aud.queue[aud.i])
    /\ LatestExtraction(extractions, aud.queue[aud.i]) # 0
    /\ LET ext_id == LatestExtraction(extractions, aud.queue[aud.i])
       IN aud' = [aud EXCEPT
                     !.pc = "spans",
                     !.md_file = MdFile(assets, aud.queue[aud.i]),
                     !.paper_text = text,
                     !.ext_id = ext_id,
                     !.todo = PendingSpans(spans, ext_id)]
    /\ UNCHANGED <<papers, clock, last, decisions, scr, assets, extractions,
                   spans, ext, dd, rspec, par, run>>

\* the stats of run_audit after a verdict
Tally(frame, verdict) ==
    LET counted ==
          IF verdict.status = "verified"
          THEN [frame EXCEPT !.spans_verified = frame.spans_verified + 1]
          ELSE [frame EXCEPT !.spans_flagged = frame.spans_flagged + 1]
    IN IF ~verdict.grep_found
       THEN [counted EXCEPT !.grep_failures = counted.grep_failures + 1]
       ELSE counted

\* one round of "for span_row in spans": the row holds value and
\* source_snippet; verdict = audit_span(...); db.update_audit(...); stats
AuditSpanStep(value, source_snippet, answer) ==
    /\ aud.pc = "spans"
    /\ aud.todo # <<>>
    /\ LET span_data == [id |-> Head(aud.todo), value |-> value,
                         source_snippet |-> source_snippet]
           verdict == AuditSpan(span_data, aud.paper_text, answer)
       IN /\ spans' = SetAudit(spans, span_data.id, verdict.status, clock)
          /\ aud' = [Tally(aud, verdict) EXCEPT
                        !.todo = Tail(aud.todo),
                        !.span_data = span_data,
                        !.verdict = verdict]
    /\ clock' = clock + 1
    /\ UNCHANGED <<papers, last, decisions, scr, assets, extractions,
                   ext, dd, rspec, par, run>>

\* semantic_verify is reached and raises (the model call fails or its
\* answer does not validate); run_audit has no handler, the exception
\* leaves it
AuditModelRaise(value, source_snippet) ==
    /\ aud.pc = "spans"
    /\ aud.todo # <<>>
    /\ value # "NOT_FOUND"
    /\ GrepVerify(source_snippet, aud.paper_text)
    /\ last' = Call("run_audit", aud.queue[aud.i], "", <<>>, "raised", 0)
    /\ aud' = AudIdle
    /\ UNCHANGED <<papers, clock, decisions, scr, assets, extractions,
                   spans, ext, dd, rspec, par, run>>

\* after the loop over the spans: db.update_status(pid, "AUDITED");
\* stats["papers_audited"] += 1
AuditPaperDone ==
    /\ aud.pc = "spans"
    /\ aud.todo = <<>>
    /\ LET pid == aud.queue[aud.i]
           r == UpdateStatusResult(papers, pid, "AUDITED", clock)
       IN /\ papers' = r.papers
          /\ IF r.result = "ok"
             THEN /\ clock' = clock + 1
                  /\ last' = last
                  /\ aud' = AudAdvance([aud EXCEPT
                                !.papers_audited = aud.papers_audited + 1])
             ELSE \* update_status raised: run_audit ends with it
                  /\ clock' = clock
                  /\ last' = Call("run_audit", pid, "", <<>>, "raised", 0)
                  /\ aud' = AudIdle
    /\ UNCHANGED <<decisions, scr, assets, extractions,
                   spans, ext, dd, rspec, par, run>>

\* return stats
AuditReturn ==
    /\ aud.pc = "done"
    /\ last' = Call("run_audit", 0, "", <<>>, "ok", aud.papers_audited)
    /\ aud' = AudIdle
    /\ UNCHANGED <<papers, clock, decisions, scr, assets, extractions,
                   spans, ext, dd, rspec, par, run>>

----------------------------------------------------------------------------
(* scripts/run_pipeline.py: run_pipeline *)

\* STAGES.index(name)
StageIndex(name) == (CHOOSE k \in 1..Len(STAGES) : STAGES[k] = name) - 1

\* skip_to not in STAGES, negated
IsStage(name) == \E k \in 1..Len(STAGES) : STAGES[k] = name

\* _finish_review_run: UPDATE review_runs SET status = ? WHERE id = ?
FinishReviewRun(runs, run_id, status) == [runs EXCEPT ![run_id] = status]

StageDue_Only(frame) == frame.start_idx = frame.stage - 1

\* "if start_idx <= STAGES.index(...)", for the stage the frame is at
StageDue(frame) == frame.start_idx <= frame.stage - 1

\* the stage at hand has returned: results[...] = ..., on to the next "if"
StageDone(frame) ==
    [frame EXCEPT !.results = Append(frame.results, STAGES[frame.stage]),
                  !.stage = frame.stage + 1]

\* run_id = _start_review_run(db, spec); the skip_to check; results = {}
PipelineStart(skip_to) ==
    /\ Idle
    /\ run.pc = "idle"
    /\ LET started == Append(run.runs, "running")
           run_id == Len(run.runs) + 1
       IN IF Truthy(skip_to) /\ ~IsStage(skip_to)
          THEN \* sys.exit(1)
               /\ run' = [RunIdle EXCEPT !.runs = started]
               /\ last' = Call("run_pipeline", 0, skip_to, <<>>, "exited", run_id)
          ELSE /\ run' = [RunIdle EXCEPT
                             !.runs = started, !.pc = "try",
                             !.run_id = run_id, !.skip_to = skip_to,
                             !.start_idx = IF Truthy(skip_to)
                                           THEN StageIndex(skip_to) ELSE 0,
                             !.stage = 1]
               /\ last' = last
    /\ UNCHANGED <<papers, clock, decisions, scr, assets, extractions,
                   spans, ext, dd, rspec, par, aud>>

\* an "if start_idx <= ..." that is false
PipelineSkipStage ==
    /\ Idle
    /\ run.pc = "try"
    /\ run.stage <= Len(STAGES)
    /\ ~StageDue(run)
    /\ run' = [run EXCEPT !.stage = run.stage + 1]
    /\ UNCHANGED <<papers, clock, last, decisions, scr, assets, extractions,
                   spans, ext, dd, rspec, par, aud>>

\* the stage at hand is stage name and is to run
AtStage(name) ==
    /\ run.pc = "try"
    /\ run.stage = StageIndex(name) + 1
    /\ StageDue(run)

\* _stage_search: the searches and deduplicate give batch; db.add_papers
PipelineSearch(batch) == AtStage("search") /\ AddPapers(batch)

\* _stage_search: search_pubmed or search_openalex raises
PipelineSearchRaise ==
    /\ Idle
    /\ AtStage("search")
    /\ last' = Call("_stage_search", 0, "", <<>>, "raised", 0)
    /\ UNCHANGED <<papers, clock, decisions, scr, assets, extractions,
                   spans, ext, dd, rspec, par, aud, run>>

\* _stage_screen: run_screening(db, spec)
PipelineScreen == AtStage("screen") /\ ScreenStart

\* _stage_parse, _stage_extract, _stage_audit: the runner's input status
\* has no paper, the stage returns without calling the runner
PipelineNothingToDo ==
    /\ Idle
    /\ \E name \in {"parse", "extract", "audit"} :
          /\ AtStage(name)
          /\ GetPapersByStatus(papers,
                CASE name = "parse" -> "PDF_ACQUIRED"
                  [] name = "extract" -> "PARSED"
                  [] name = "audit" -> "EXTRACTED") = <<>>
    /\ run' = StageDone(run)
    /\ UNCHANGED <<papers, clock, last, decisions, scr, assets, extractions,
                   spans, ext, dd, rspec, par, aud>>

\* _stage_parse: parse_all_pdfs(db, review_name)
PipelineParse ==
    /\ AtStage("parse")
    /\ GetPapersByStatus(papers, "PDF_ACQUIRED") # <<>>
    /\ ParseAllStart

\* _stage_extract: run_extraction(db, spec, review_name)
PipelineExtract(schema_hash) ==
    /\ AtStage("extract")
    /\ GetPapersByStatus(papers, "PARSED") # <<>>
    /\ ExtractStart(schema_hash)

\* _stage_audit: run_audit(db, review_name)
PipelineAudit ==
    /\ AtStage("audit")
    /\ GetPapersByStatus(papers, "EXTRACTED") # <<>>
    /\ AuditStart

\* _stage_export: export_all reads the store and writes the files, or
\* raises
PipelineExport(written) ==
    /\ Idle
    /\ AtStage("export")
    /\ last' = Call("export_all", 0, "", <<>>,
                    IF written THEN "ok" ELSE "raised", 0)
    /\ UNCHANGED <<papers, clock, decisions, scr, assets, extractions,
                   spans, ext, dd, rspec, par, aud, run>>

\* the call of the stage at hand has ended.  It returned: results[...] =
\* ..., on to the next "if".  It raised: "except Exception":
\* _finish_review_run(db, run_id, "failed"); raise
PipelineStageEnd ==
    /\ run.pc = "try"
    /\ last.op # "none"
    /\ IF last.result = "raised"
       THEN /\ run' = [RunIdle EXCEPT
                          !.runs = FinishReviewRun(run.runs, run.run_id,
                                                   "failed")]
            /\ last' = Call("run_pipeline", 0, run.skip_to, <<>>, "raised",
                            run.run_id)
       ELSE /\ run' = StageDone(run)
            /\ last' = NoCall
    /\ UNCHANGED <<papers, clock, decisions, scr, assets, extractions,
                   spans, ext, dd, rspec, par, aud>>

\* past the last "if": _finish_review_run(db, run_id, "completed")
PipelineFinish ==
    /\ Idle
    /\ run.pc = "try"
    /\ run.stage = Len(STAGES) + 1
    /\ run' = [RunIdle EXCEPT
                  !.runs = FinishReviewRun(run.runs, run.run_id, "completed")]
    /\ last' = Call("run_pipeline", 0, run.skip_to, <<>>, "ok", run.run_id)
    /\ UNCHANGED <<papers, clock, decisions, scr, assets, extractions,
                   spans, ext, dd, rspec, par, aud>>

----------------------------------------------------------------------------
(* engine/agents/extractor.py: run_extraction ended by process termination *)

\* the process ends before extract_paper has written anything for the
\* paper at hand, or after the loop: the frame is gone, the store is as
\* the last commit left it
ExtractKillEarly ==
    /\ ext.pc \in {"loop", "done"}
    /\ ext' = ExtIdle
    /\ UNCHANGED <<papers, clock, last, decisions, scr, assets, extractions,
                   spans, dd, rspec, par, aud, run>>

\* the process ends inside extract_paper or right after it, before
\* update_status: add_extraction and k of the n add_evidence_span calls
\* have committed
ExtractKillStored(n, k) ==
    /\ ExtractTries
    /\ k <= n
    /\ LET pid == ext.queue[ext.i]
       IN /\ extractions' =
                Append(extractions, ExtractionRow(pid, ext.schema_hash, clock))
          /\ spans' = AddSpans(spans, Len(extractions) + 1, k)
    /\ clock' = clock + 1
    /\ ext' = ExtIdle
    /\ UNCHANGED <<papers, last, decisions, scr, assets, dd, rspec,
                   par, aud, run>>

----------------------------------------------------------------------------
(* Specifications *)

\* the store's lifecycle: papers without identifiers, every transition asked
LifecycleAdd ==
    /\ clock < MaxLifecycleClock
    /\ Len(papers) < MaxLifecyclePapers
    /\ AddPapers(<<PlainCitation>>)

LifecycleUpdate ==
    \E pid \in 1..(MaxLifecyclePapers + 1), s \in STATUSES \cup {BadStatus} :
        /\ UpdateStatus(pid, s)
        /\ clock' <= MaxLifecycleClock

LifecycleNext == LifecycleAdd \/ LifecycleUpdate \/ Return

SpecLifecycle == Init /\ [][LifecycleNext]_vars

\* ingestion: batches of citations with and without identifiers
IngestAdd ==
    /\ clock < MaxIngestClock
    /\ \E batch \in SeqsUpTo(Citations, MaxBatch) :
          /\ AddPapers(batch)
          /\ Len(papers') <= MaxIngestPapers

IngestNext == IngestAdd \/ Return

SpecIngest == Init /\ [][IngestNext]_vars

\* screening: papers are ingested and run_screening is invoked, any number
\* of times, with every answer of the model and with model calls that fail
ScreenAdd ==
    /\ clock < MaxScreenClock
    /\ \E n \in 1..MaxScreenPapers :
          /\ AddPapers([k \in 1..n |-> PlainCitation])
          /\ Len(papers') <= MaxScreenPapers

ScreenFirst ==
    \E d \in Decisions : ScreenPass1(d) /\ clock' <= MaxScreenClock

ScreenSecond ==
    \E d \in Decisions : ScreenPass2(d) /\ clock' <= MaxScreenClock

ScreenNext ==
    \/ ScreenAdd
    \/ ScreenStart
    \/ ScreenFirst
    \/ ScreenSecond
    \/ ScreenRaise
    \/ ScreenReturn
    \/ Return

SpecScreen == Init /\ [][ScreenNext]_vars

\* parsing: parse_pdf on stored and unknown papers, for every digest
ParseAdd ==
    /\ Len(papers) < MaxParsePapers
    /\ AddPapers(<<PlainCitation>>)

ParseCall ==
    \E pid \in 1..(MaxParsePapers + 1), h \in Hashes, parsed \in BOOLEAN :
        /\ ParsePdf(pid, h, parsed)
        /\ Len(assets') <= MaxAssets

ParseNext == ParseAdd \/ ParseCall \/ Return

SpecParse == Init /\ [][ParseNext]_vars

\* extraction records and the staleness query
ExtractAdd ==
    /\ Len(papers) < MaxExtractPapers
    /\ AddPapers(<<PlainCitation>>)

ExtractRecord ==
    \E pid \in 1..(MaxExtractPapers + 1), h \in SchemaHashes :
        /\ AddExtraction(pid, h)
        /\ Len(extractions') <= MaxExtractions

ExtractQuery == \E h \in SchemaHashes : GetStaleExtractions(h)

ExtractNext == ExtractAdd \/ ExtractRecord \/ ExtractQuery \/ Return

SpecExtract == Init /\ [][ExtractNext]_vars

\* run_extraction: papers are taken to PARSED by the stages before it, with
\* or without parsed text, and run_extraction is invoked any number of
\* times, under either schema hash, with model calls and store writes that
\* succeed or fail
RunAdd ==
    /\ clock < MaxRunClock
    /\ \E n \in 1..MaxRunPapers :
          /\ AddPapers([k \in 1..n |-> PlainCitation])
          /\ Len(papers') <= MaxRunPapers

RunAdvance ==
    \E pid \in 1..MaxRunPapers,
       s \in {"SCREENED_IN", "PDF_ACQUIRED", "PARSED"} :
        /\ UpdateStatus(pid, s)
        /\ last'.result = "ok"
        /\ clock' <= MaxRunClock

RunParse ==
    \E pid \in 1..MaxRunPapers :
        /\ AssetsOf(assets, pid) = {}
        /\ ParsePdf(pid, "A", TRUE)

RunStart == \E h \in SchemaHashes : ExtractStart(h)

RunOk ==
    \E n \in 0..MaxFields :
        /\ ExtractOk(n)
        /\ clock' <= MaxRunClock
        /\ Len(extractions') <= MaxRunExtractions

RunStoreRaise ==
    \E n \in 1..MaxFields, k \in 0..MaxFields :
        /\ ExtractStoreRaise(n, k)
        /\ clock' <= MaxRunClock
        /\ Len(extractions') <= MaxRunExtractions

RunExtractNext ==
    \/ RunAdd
    \/ RunAdvance
    \/ RunParse
    \/ RunStart
    \/ ExtractSkip
    \/ ExtractNoText
    \/ ExtractModelRaise
    \/ RunOk
    \/ RunStoreRaise
    \/ ExtractReturn
    \/ Return

SpecRunExtract == Init /\ [][RunExtractNext]_vars

\* evidence spans: the store calls that touch a span's surroundings, with
\* every status update_audit may be handed
SpansPaper ==
    /\ clock < MaxSpanClock
    /\ Len(papers) < MaxSpanPapers
    /\ AddPapers(<<PlainCitation>>)

SpansStatus ==
    \E pid \in 1..MaxSpanPapers, s \in STATUSES :
        /\ UpdateStatus(pid, s)
        /\ clock' <= MaxSpanClock

SpansExtraction ==
    \E pid \in 1..MaxSpanPapers, h \in SchemaHashes :
        /\ AddExtraction(pid, h)
        /\ clock' <= MaxSpanClock
        /\ Len(extractions') <= MaxSpanExtractions

SpansSpan ==
    \E extraction_id \in 1..(MaxSpanExtractions + 1) :
        /\ AddEvidenceSpan(extraction_id)
        /\ Len(spans') <= MaxSpans

SpansAudit ==
    \E span_id \in 1..(MaxSpans + 1),
       status \in AUDIT_STATUSES \cup {BadAuditStatus} :
        /\ UpdateAudit(span_id, status)
        /\ clock' <= MaxSpanClock

SpansNext ==
    \/ SpansPaper
    \/ SpansStatus
    \/ SpansExtraction
    \/ SpansSpan
    \/ SpansAudit
    \/ Return

SpecSpans == Init /\ [][SpansNext]_vars

\* deduplicate: the two lists are handed over one citation at a time, the
\* primary list first.  There is one DOI and one PMID, which the two
\* sources spell differently; titles are a title, a near copy of it and an
\* unrelated one
DedupDois(source) ==
    IF source = "pubmed" THEN {NoneS, <<"d">>} ELSE {NoneS, <<" ", "D">>}

DedupPmids(source) ==
    IF source = "pubmed" THEN {NoneS, <<"1">>} ELSE {NoneS, <<"1", " ">>}

DedupTitles ==
    {<<"A", "b", "c", "d", "e", ".">>,
     <<"a", "b", "c", "d", "e", "f">>,
     <<"x", "y">>}

\* engine/search/models.py Citation
Citation(doi, pmid, title, abstract, authors, source) ==
    [pmid |-> pmid, doi |-> doi, title |-> title, abstract |-> abstract,
     journal |-> NoneS, year |-> NoneS, authors |-> authors,
     source |-> source]

IdCitations(source) ==
    {Citation(doi, pmid, title, NoneS, <<>>, source) :
        doi \in DedupDois(source), pmid \in DedupPmids(source),
        title \in DedupTitles}

DedupRoom == dd.pubmed_total + dd.openalex_total < MaxDedupCitations

DedupFirst ==
    /\ DedupRoom
    /\ \E cit \in IdCitations("pubmed") : DedupPrimary(cit)

DedupSecond ==
    /\ DedupRoom
    /\ \E cit \in IdCitations("openalex") : DedupSecondary(cit)

DedupNext == DedupFirst \/ DedupSecond \/ DedupReturn

SpecDedup == Init /\ [][DedupNext]_vars

\* merging: a primary title and a near copy of it for the secondary list,
\* so that every secondary citation matches; each source has its own
\* abstracts and authors, the primary ones also empty
MergeCitations(source) ==
    IF source = "pubmed"
    THEN {Citation(doi, NoneS, <<"A", "b", "c", "d", "e", ".">>, abstract,
                   authors, source) :
             doi \in DedupDois(source), abstract \in {NoneS, <<>>, <<"a">>},
             authors \in {<<>>, <<"A">>}}
    ELSE {Citation(<<" ", "D">>, NoneS, <<"a", "b", "c", "d", "e", "f">>,
                   abstract, authors, source) :
             abstract \in {NoneS, <<"x">>, <<"y">>},
             authors \in {<<>>, <<"X">>, <<"Y">>}}

MergeRoom == dd.pubmed_total + dd.openalex_total < MaxMergeCitations

MergeFirst ==
    /\ MergeRoom
    /\ \E cit \in MergeCitations("pubmed") : DedupPrimary(cit)

MergeSecond ==
    /\ MergeRoom
    /\ \E cit \in MergeCitations("openalex") : DedupSecondary(cit)

MergeNext == MergeFirst \/ MergeSecond \/ DedupReturn

SpecMerge == Init /\ [][MergeNext]_vars

\* review specs: a spec is edited one section at a time
ReviewNext == EditScreening \/ EditExtraction \/ EditOther

SpecReview == Init /\ [][ReviewNext]_vars

\* the four stage runners on one store: a search result is ingested, a
\* person screens papers by hand, acquires PDFs and marks papers parsed,
\* and the runners are invoked any number of times in any order, with
\* model calls, parser calls and store writes that succeed or fail.
\* EXTRACTED and AUDITED are reached through run_extraction and run_audit
\* only
StageAdd ==
    /\ papers = <<>>
    /\ \E n \in 1..MaxStagePapers : AddPapers([k \in 1..n |-> PlainCitation])

StageManual ==
    \E pid \in 1..MaxStagePapers,
       s \in {"SCREENED_IN", "PDF_ACQUIRED", "PARSED"} :
        /\ UpdateStatus(pid, s)
        /\ last'.result = "ok"
        /\ clock' <= MaxStageClock

StageScreenFirst ==
    \E d \in Decisions : ScreenPass1(d) /\ clock' <= MaxStageClock

StageScreenSecond ==
    \E d \in Decisions : ScreenPass2(d) /\ clock' <= MaxStageClock

StageParseTry ==
    \E parsed \in BOOLEAN, parser_used \in Parsers :
        /\ ParseAllTry("A", parsed, parser_used)
        /\ clock' <= MaxStageClock

StageExtractStart == ExtractStart("h1")

StageExtractOk ==
    \E n \in 0..MaxFields : ExtractOk(n) /\ clock' <= MaxStageClock

StageStoreRaise ==
    \E n \in 1..MaxFields, k \in 0..MaxFields :
        ExtractStoreRaise(n, k) /\ clock' <= MaxStageClock

\* what a parsed file holds
AuditTexts == {<<"a", "b", "c", "d", "e", "f", "y">>}

\* evidence_spans.value
SpanValues == {"NOT_FOUND", "RCT"}

\* evidence_spans.source_snippet: NULL, a substring of the text up to case,
\* a near copy of the text, and an unrelated snippet
Snippets ==
    {NoneS, <<"b", "c", "D">>, <<"a", "b", "c", "d", "e", "f", "x">>,
     <<"x", "y">>}

\* a snippet the text holds and one that it does not hold
SomeSnippets == {<<"b", "c", "D">>, <<"x", "y">>}

\* what semantic_verify may return
Answers == [status : {"verified", "flagged"}, grep_found : BOOLEAN]

StageAuditFetch == \E text \in AuditTexts : AuditFetch(text)

StageAuditSpan ==
    \E value \in SpanValues, source_snippet \in SomeSnippets,
       answer \in Answers :
        /\ AuditSpanStep(value, source_snippet, answer)
        /\ clock' <= MaxStageClock

StageAuditRaise ==
    \E value \in SpanValues, source_snippet \in SomeSnippets :
        AuditModelRaise(value, source_snippet)

StageAuditDone == AuditPaperDone /\ clock' <= MaxStageClock

StagesNext ==
    \/ StageAdd
    \/ StageManual
    \/ ScreenStart
    \/ StageScreenFirst
    \/ StageScreenSecond
    \/ ScreenRaise
    \/ ScreenReturn
    \/ ParseAllStart
    \/ ParseAllNoPdf
    \/ StageParseTry
    \/ ParseAllReturn
    \/ StageExtractStart
    \/ ExtractSkip
    \/ ExtractNoText
    \/ ExtractModelRaise
    \/ StageExtractOk
    \/ StageStoreRaise
    \/ ExtractReturn
    \/ AuditStart
    \/ StageAuditFetch
    \/ StageAuditSpan
    \/ StageAuditRaise
    \/ StageAuditDone
    \/ AuditReturn
    \/ Return

SpecStages == Init /\ [][StagesNext]_vars

\* run_pipeline: it is invoked any number of times with every skip_to, a
\* value that is no stage included; between two invocations a person
\* screens papers by hand and acquires PDFs; searches, model calls, parser
\* calls and the export succeed or fail, store writes succeed
SkipTos == {NULL, "", "bogus"} \cup {STAGES[k] : k \in 1..Len(STAGES)}

PipeStart ==
    /\ Len(run.runs) < MaxPipelineRuns
    /\ \E skip_to \in SkipTos : PipelineStart(skip_to)

PipeManual ==
    /\ run.pc = "idle"
    /\ \E pid \in 1..MaxPipelinePapers, s \in {"SCREENED_IN", "PDF_ACQUIRED"} :
          /\ UpdateStatus(pid, s)
          /\ last'.result = "ok"
          /\ clock' <= MaxPipelineClock

PipeSearch ==
    /\ clock < MaxPipelineClock
    /\ \E n \in 0..MaxPipelinePapers :
          /\ PipelineSearch([k \in 1..n |-> PlainCitation])
          /\ Len(papers') <= MaxPipelinePapers

\* the model answers "include" at every pass, or fails
PipeScreenFirst ==
    \E d \in {"include"} : ScreenPass1(d) /\ clock' <= MaxPipelineClock

PipeScreenSecond ==
    \E d \in {"include"} : ScreenPass2(d) /\ clock' <= MaxPipelineClock

PipeParseTry ==
    \E parsed \in BOOLEAN, parser_used \in Parsers :
        /\ ParseAllTry("A", parsed, parser_used)
        /\ clock' <= MaxPipelineClock

PipeExtract == PipelineExtract("h1")

PipeExtractOk ==
    \E n \in 0..MaxFields : ExtractOk(n) /\ clock' <= MaxPipelineClock

PipeAuditFetch == \E text \in AuditTexts : AuditFetch(text)

PipeAuditSpan ==
    \E value \in SpanValues, source_snippet \in SomeSnippets,
       answer \in Answers :
        /\ AuditSpanStep(value, source_snippet, answer)
        /\ clock' <= MaxPipelineClock

PipeAuditRaise ==
    \E value \in SpanValues, source_snippet \in SomeSnippets :
        AuditModelRaise(value, source_snippet)

PipeAuditDone == AuditPaperDone /\ clock' <= MaxPipelineClock

PipeExport == \E written \in BOOLEAN : PipelineExport(written)

\* the caller of run_pipeline, or the person, takes the outcome
PipeReturn == run.pc = "idle" /\ Return

PipelineNext ==
    \/ PipeStart
    \/ PipeManual
    \/ PipelineSkipStage
    \/ PipeSearch
    \/ PipelineSearchRaise
    \/ PipelineScreen
    \/ PipeScreenFirst
    \/ PipeScreenSecond
    \/ ScreenRaise
    \/ ScreenReturn
    \/ PipelineNothingToDo
    \/ PipelineParse
    \/ ParseAllNoPdf
    \/ PipeParseTry
    \/ ParseAllReturn
    \/ PipeExtract
    \/ ExtractModelRaise
    \/ PipeExtractOk
    \/ ExtractReturn
    \/ PipelineAudit
    \/ PipeAuditFetch
    \/ PipeAuditSpan
    \/ PipeAuditRaise
    \/ PipeAuditDone
    \/ AuditReturn
    \/ PipeExport
    \/ PipelineStageEnd
    \/ PipelineFinish
    \/ PipeReturn

SpecPipeline == Init /\ [][PipelineNext]_vars

\* resuming run_extraction: papers are taken to PARSED, run_extraction is
\* invoked any number of times under either schema hash, every model call
\* and store write succeeds, and the process may end at any point of an
\* invocation
ResumeKillStored ==
    \E n \in 0..MaxFields, k \in 0..MaxFields :
        /\ ExtractKillStored(n, k)
        /\ clock' <= MaxRunClock
        /\ Len(extractions') <= MaxRunExtractions

ResumeNext ==
    \/ RunAdd
    \/ RunAdvance
    \/ RunParse
    \/ RunStart
    \/ ExtractSkip
    \/ ExtractNoText
    \/ RunOk
    \/ ExtractKillEarly
    \/ ResumeKillStored
    \/ ExtractReturn
    \/ Return

SpecResume == Init /\ [][ResumeNext]_vars

\* run_audit: a paper is walked to EXTRACTED by hand, with or without
\* parsed text, extractions and spans, and run_audit is invoked any number
\* of times, with every kind of span and with model calls that answer or
\* fail
AuditAdd ==
    /\ papers = <<>>
    /\ \E n \in 1..MaxAuditPapers : AddPapers([k \in 1..n |-> PlainCitation])

AuditStatus ==
    \E pid \in 1..MaxAuditPapers,
       s \in {"SCREENED_IN", "PDF_ACQUIRED", "PARSED", "EXTRACTED"} :
        /\ UpdateStatus(pid, s)
        /\ last'.result = "ok"
        /\ clock' <= MaxAuditClock

AuditParse ==
    \E pid \in 1..MaxAuditPapers :
        /\ AssetsOf(assets, pid) = {}
        /\ ParsePdf(pid, "A", TRUE)

AuditExtraction ==
    \E pid \in 1..MaxAuditPapers :
        /\ pid <= Len(papers)
        /\ papers[pid].status \in {"PARSED", "EXTRACTED"}
        /\ AddExtraction(pid, "h1")
        /\ clock' <= MaxAuditClock
        /\ Len(extractions') <= MaxAuditExtractions

AuditSpanAdd ==
    \E extraction_id \in 1..MaxAuditExtractions :
        /\ AddEvidenceSpan(extraction_id)
        /\ last'.result = "ok"
        /\ Len(spans') <= MaxAuditSpans

AuditSkipNoExtraction == \E text \in AuditTexts : AuditNoExtraction(text)

AuditRead == \E text \in AuditTexts : AuditFetch(text)

AuditOne ==
    \E value \in SpanValues, source_snippet \in Snippets, answer \in Answers :
        /\ AuditSpanStep(value, source_snippet, answer)
        /\ clock' <= MaxAuditClock

AuditRaise ==
    \E value \in SpanValues, source_snippet \in Snippets :
        AuditModelRaise(value, source_snippet)

AuditDone == AuditPaperDone /\ clock' <= MaxAuditClock

AuditNext ==
    \/ AuditAdd
    \/ AuditStatus
    \/ AuditParse
    \/ AuditExtraction
    \/ AuditSpanAdd
    \/ AuditStart
    \/ AuditNoText
    \/ AuditSkipNoExtraction
    \/ AuditRead
    \/ AuditOne
    \/ AuditRaise
    \/ AuditDone
    \/ AuditReturn
    \/ Return

SpecAudit == Init /\ [][AuditNext]_vars

\* parsed-text versions: the PDF of a paper is replaced and parsed again
\* any number of times while the paper waits for parsing, then
\* run_extraction and run_audit read the parsed text
TextAdd ==
    /\ papers = <<>>
    /\ \E n \in 1..MaxTextPapers : AddPapers([k \in 1..n |-> PlainCitation])

TextStatus ==
    \E pid \in 1..MaxTextPapers,
       s \in {"SCREENED_IN", "PDF_ACQUIRED", "PARSED"} :
        /\ UpdateStatus(pid, s)
        /\ last'.result = "ok"
        /\ clock' <= MaxTextClock

\* the hash of the n-th PDF a paper gets
PdfHash ==
    <<"A", "B", "C", "D", "E", "F", "G", "H", "I", "J", "K", "L", "M", "N">>

\* parse_pdf with a PDF not parsed before
TextParse ==
    \E pid \in 1..MaxTextPapers :
        /\ pid <= Len(papers)
        /\ papers[pid].status = "PDF_ACQUIRED"
        /\ NextVersion(assets, pid) <= MaxTextVersions
        /\ ParsePdf(pid, PdfHash[NextVersion(assets, pid)], TRUE)

\* parse_pdf with the PDF parsed last
TextParseAgain ==
    \E pid \in 1..MaxTextPapers :
        /\ pid <= Len(papers)
        /\ papers[pid].status = "PDF_ACQUIRED"
        /\ NextVersion(assets, pid) > 1
        /\ ParsePdf(pid, PdfHash[NextVersion(assets, pid) - 1], TRUE)

TextExtractStart == ExtractStart("h1")

TextExtractOk == ExtractOk(0) /\ clock' <= MaxTextClock

TextAuditFetch == \E text \in AuditTexts : AuditFetch(text)

TextAuditDone == AuditPaperDone /\ clock' <= MaxTextClock

TextNext ==
    \/ TextAdd
    \/ TextStatus
    \/ TextParse
    \/ TextParseAgain
    \/ TextExtractStart
    \/ ExtractNoText
    \/ ExtractModelRaise
    \/ TextExtractOk
    \/ ExtractReturn
    \/ AuditStart
    \/ TextAuditFetch
    \/ TextAuditDone
    \/ AuditReturn
    \/ Return

SpecText == Init /\ [][TextNext]_vars

----------------------------------------------------------------------------
(* Claims about the lifecycle, checked under SpecLifecycle *)

PaperIds(ps) == 1..Len(ps)

Terminal == {"SCREENED_OUT", "AUDITED"}

\* C1: every paper's status is one of the eight statuses, every change of a
\* paper's status goes from its status S to a member of ALLOWED_TRANSITIONS[S],
\* and an update_status call for a transition that is not in the table raises
\* and leaves the status unchanged.
C1_Step ==
    /\ \A i \in PaperIds(papers') : papers'[i].status \in STATUSES
    /\ \A i \in PaperIds(papers) :
          papers'[i].status # papers[i].status
          => papers'[i].status \in ALLOWED_TRANSITIONS[papers[i].status]
    /\ \A i \in PaperIds(papers) :
          ( /\ last'.op = "update_status"
            /\ last'.pid = i
            /\ last'.arg \in STATUSES
            /\ last'.arg \notin ALLOWED_TRANSITIONS[papers[i].status] )
          => /\ last'.result = "InvalidTransition"
             /\ papers'[i].status = papers[i].status

\* C1: every step keeps each status among the eight statuses, changes a status
\* only along ALLOWED_TRANSITIONS, and refuses a call for any other transition.
C1_StatusFollowsTable == [][C1_Step]_vars

C1_Witness ==
    /\ last.op = "update_status"
    /\ last.result = "InvalidTransition"
    /\ last.pid \in PaperIds(papers)
    /\ papers[last.pid].status = "PARSED"
    /\ last.arg = "AUDITED"

\* C2: a paper in SCREENED_OUT or AUDITED keeps that status in every step, and
\* update_status on it raises for every target status, its own included.
C2_Step ==
    \A i \in PaperIds(papers) :
        papers[i].status \in Terminal
        => /\ papers'[i].status = papers[i].status
           /\ (last'.op = "update_status" /\ last'.pid = i)
              => last'.result # "ok"

\* C2: every step leaves a SCREENED_OUT or AUDITED paper in its status and
\* update_status on it raises.
C2_TerminalForever == [][C2_Step]_vars

C2_Witness ==
    /\ last.op = "update_status"
    /\ last.pid \in PaperIds(papers)
    /\ papers[last.pid].status = "AUDITED"
    /\ last.arg = "AUDITED"
    /\ last.result = "InvalidTransition"

\* C3: an update_status call whose new_status is no status, whose paper id is
\* not stored, or whose transition is not allowed raises, and every row of
\* every table (status and updated_at included) is as it was before the call.
C3_Fails(ps, pid, new_status) ==
    \/ new_status \notin STATUSES
    \/ pid \notin PaperIds(ps)
    \/ new_status \notin ALLOWED_TRANSITIONS[ps[pid].status]

C3_Step ==
    last'.op = "update_status"
    => /\ C3_Fails(papers, last'.pid, last'.arg) <=> last'.result # "ok"
       /\ last'.result # "ok"
          => /\ papers' = papers
             /\ decisions' = decisions
             /\ assets' = assets
             /\ extractions' = extractions

\* C3: every update_status call that fails raises and writes no row.
C3_FailureWritesNothing == [][C3_Step]_vars

C3_Witness ==
    /\ last.op = "update_status"
    /\ last.result = "InvalidTransition"
    /\ Len(papers) = 2
    /\ papers[last.pid].updated_at > papers[last.pid].created_at
    /\ papers[last.pid].updated_at < clock - 1

----------------------------------------------------------------------------
(* Claims about ingestion, checked under SpecIngest *)

Stored(ps, pmid) == \E i \in PaperIds(ps) : ps[i].pmid = pmid

\* citation k of the batch repeats a PMID of the store or of the batch
C4_Repeat(ps, batch, k) ==
    /\ batch[k].pmid # NULL
    /\ \/ Stored(ps, batch[k].pmid)
       \/ \E j \in 1..(k - 1) : batch[j].pmid = batch[k].pmid

\* C4: no two stored papers share a non-null PMID; a citation whose PMID is
\* already stored, or occurs earlier in the batch, is skipped without error,
\* is not counted in the returned number, and the stored rows stay as they are.
C4_Step ==
    /\ \A i, j \in PaperIds(papers') :
          (i # j /\ papers'[i].pmid # NULL) => papers'[i].pmid # papers'[j].pmid
    /\ last'.op = "add_papers"
       => LET fresh == {k \in 1..Len(last'.batch) :
                           ~C4_Repeat(papers, last'.batch, k)}
          IN /\ last'.result = "ok"
             /\ last'.ret = Cardinality(fresh)
             /\ Len(papers') = Len(papers) + Cardinality(fresh)
             /\ SubSeq(papers', 1, Len(papers)) = papers

\* C4: after every step non-null PMIDs are unique, and add_papers skips and
\* does not count a citation whose PMID is stored or repeated in the batch.
C4_PmidUnique == [][C4_Step]_vars

C4_Witness ==
    /\ last.op = "add_papers"
    /\ Len(last.batch) = 2
    /\ last.batch[1].pmid = "p1"
    /\ last.batch[2].pmid = ""
    /\ last.ret = 0
    /\ Len(papers) = 2

\* C5: every citation without a PMID becomes a new INGESTED row, also when a
\* stored paper has its DOI and title, and the returned number is the number
\* of rows the call added.
C5_NoPmid(c) == c.pmid = NULL

C5_Step ==
    last'.op = "add_papers"
    => LET new == SubSeq(papers', Len(papers) + 1, Len(papers'))
           want == SelectSeq(last'.batch, C5_NoPmid)
           got == SelectSeq(new, C5_NoPmid)
       IN /\ last'.ret = Len(papers') - Len(papers)
          /\ Len(got) = Len(want)
          /\ \A k \in 1..Len(got) :
                /\ got[k].doi = want[k].doi
                /\ got[k].title = want[k].title
          /\ \A k \in 1..Len(new) : new[k].status = "INGESTED"

\* C5: every add_papers call inserts each citation without PMID as INGESTED
\* and returns the number of rows it added.
C5_NoPmidAlwaysInserted == [][C5_Step]_vars

C5_Witness ==
    /\ last.op = "add_papers"
    /\ Len(last.batch) = 2
    /\ last.ret = 2
    /\ Len(papers) = 3
    /\ \A k \in 1..3 : papers[k].pmid = NULL /\ papers[k].doi = "d1"

----------------------------------------------------------------------------
(* Claims about screening, checked under SpecScreen *)

\* the papers of run_screening's snapshot that have the given status
C6_Count(status) ==
    Cardinality({k \in 1..Len(scr'.queue) : papers'[scr'.queue[k]].status = status})

\* C6: run_screening moves an INGESTED paper to SCREENED_IN exactly when both
\* passes say include, to SCREENED_OUT exactly when both say exclude, and to
\* SCREEN_FLAGGED when they disagree; when it is about to return, no paper of
\* its snapshot is INGESTED and screened_in + screened_out + flagged = total.
C6_Step ==
    /\ (scr.pc = "pass2" /\ Len(decisions') > Len(decisions))
       => LET pid == scr.queue[scr.i]
              a == scr.d1
              b == decisions'[Len(decisions')].decision
              now == papers'[pid].status
          IN /\ papers[pid].status = "INGESTED"
             /\ now = "SCREENED_IN" <=> (a = "include" /\ b = "include")
             /\ now = "SCREENED_OUT" <=> (a = "exclude" /\ b = "exclude")
             /\ now = "SCREEN_FLAGGED" <=> a # b
    /\ scr'.pc = "done"
       => /\ \A k \in 1..Len(scr'.queue) :
                papers'[scr'.queue[k]].status # "INGESTED"
          /\ scr'.total = Len(scr'.queue)
          /\ scr'.screened_in + scr'.screened_out + scr'.flagged = scr'.total
          /\ scr'.screened_in = C6_Count("SCREENED_IN")
          /\ scr'.screened_out = C6_Count("SCREENED_OUT")
          /\ scr'.flagged = C6_Count("SCREEN_FLAGGED")
    /\ (scr.pc = "idle" /\ scr'.pc # "idle")
       => \A i \in PaperIds(papers) :
             papers[i].status = "INGESTED"
             <=> \E k \in 1..Len(scr'.queue) : scr'.queue[k] = i

\* C6: every step of run_screening resolves the two passes as stated and its
\* stats add up to total when it returns.
C6_DualPassResolution == [][C6_Step]_vars

C6_Witness ==
    /\ scr.pc = "done"
    /\ scr.total = 2
    /\ scr.flagged = 1
    /\ scr.screened_in = 1
    /\ papers[1].status = "SCREEN_FLAGGED"

C7_Rows(pid) == {k \in 1..Len(decisions) : decisions[k].paper_id = pid}

\* C7: every paper that run_screening has moved out of INGESTED has exactly
\* two screening decisions, one of pass 1 and one of pass 2, also after
\* invocations that a failing model call ended.
C7_ExactlyTwoDecisions ==
    \A i \in PaperIds(papers) :
        papers[i].status # "INGESTED"
        => /\ Cardinality(C7_Rows(i)) = 2
           /\ \E k \in C7_Rows(i) : decisions[k].pass_number = 1
           /\ \E k \in C7_Rows(i) : decisions[k].pass_number = 2

----------------------------------------------------------------------------
(* Claims about parsed-text versions, checked under SpecParse *)

HashesOf(as, pid) == {as[k].pdf_hash : k \in AssetsOf(as, pid)}

\* C8: the versions stored for a paper are exactly 1..n without gaps or
\* repeats; a parse_pdf call with a hash not yet stored for the paper adds one
\* row with version max + 1 (1 for the first), and a call with a stored hash
\* returns the version of that asset and adds no row.
C8_Step ==
    /\ \A p \in 1..(MaxParsePapers + 1) :
          LET mine == AssetsOf(assets', p)
          IN /\ {assets'[k].parsed_text_version : k \in mine}
                   = 1..Cardinality(mine)
             /\ \A j, k \in mine :
                   assets'[j].parsed_text_version = assets'[k].parsed_text_version
                   => j = k
    /\ (last'.op = "parse_pdf" /\ last'.result # "raised")
       => LET p == last'.pid
              n == Cardinality(AssetsOf(assets, p))
          IN IF last'.arg \in HashesOf(assets, p)
             THEN /\ assets' = assets
                  /\ \E k \in AssetsOf(assets, p) :
                        /\ assets[k].pdf_hash = last'.arg
                        /\ assets[k].parsed_text_version = last'.ret
             ELSE /\ assets' = Append(assets, NewAsset(p, last'.arg, n + 1))
                  /\ last'.ret = n + 1

\* C8: after every step a paper's versions are 1..n, a new hash adds version
\* n + 1 and a stored hash returns its version without a new row.
C8_VersionsDense == [][C8_Step]_vars

C8_Witness ==
    /\ last.op = "parse_pdf"
    /\ last.result = "skipped"
    /\ last.ret = 2
    /\ Cardinality(AssetsOf(assets, last.pid)) = 3
    /\ Cardinality(AssetsOf(assets, 3 - last.pid)) = 1

\* the hash of the paper's most recent asset
C9_LatestHash(as, pid) == as[Max(AssetsOf(as, pid))].pdf_hash

\* C9 as stated: a parse_pdf call that returns creates a new asset row whenever
\* the hash differs from the hash of the paper's most recent asset (third call
\* of A, B, A: a third row).
C9_Original_Step ==
    ( /\ last'.op = "parse_pdf"
      /\ last'.result # "raised"
      /\ AssetsOf(assets, last'.pid) # {}
      /\ last'.arg # C9_LatestHash(assets, last'.pid) )
    => Len(assets') = Len(assets) + 1

\* C9 (as stated): every returning parse_pdf call whose hash differs from the
\* most recent asset's hash adds a row.
C9_NewRowWhenLatestDiffers == [][C9_Original_Step]_vars

\* C9 amended: a parse_pdf call that returns creates a new asset row exactly
\* when the hash differs from the hash of every asset stored for the paper; a
\* hash stored for the paper, the most recent or an older one, gives back the
\* version of its asset and creates no row (third call of A, B, A: version 1).
C9_Amended_Step ==
    (last'.op = "parse_pdf" /\ last'.result # "raised")
    => LET p == last'.pid
       IN /\ Len(assets') = Len(assets) + 1 <=> last'.arg \notin HashesOf(assets, p)
          /\ ( /\ AssetsOf(assets, p) # {}
               /\ last'.arg # C9_LatestHash(assets, p)
               /\ last'.arg \in HashesOf(assets, p) )
             => /\ assets' = assets
                /\ last'.ret < Cardinality(AssetsOf(assets, p))

\* C9 (amended): every returning parse_pdf call adds a row exactly when no
\* asset of the paper has the hash.
C9_NewRowWhenNoAssetMatches == [][C9_Amended_Step]_vars

C9_Witness ==
    /\ last.op = "parse_pdf"
    /\ last.result = "skipped"
    /\ last.arg = "A"
    /\ last.ret = 1
    /\ Cardinality(AssetsOf(assets, last.pid)) = 2
    /\ C9_LatestHash(assets, last.pid) = "B"

----------------------------------------------------------------------------
(* Claims about staleness, checked under SpecExtract *)

\* the schema hashes of a paper's extractions, oldest first
RECURSIVE C10_History(_, _, _)
C10_History(es, pid, k) ==
    IF k > Len(es) THEN <<>>
    ELSE IF es[k].paper_id = pid
         THEN <<es[k].extraction_schema_hash>> \o C10_History(es, pid, k + 1)
         ELSE C10_History(es, pid, k + 1)

\* C10: get_stale_extractions(H) returns exactly the papers that have an
\* extraction and whose newest extraction has a schema hash other than H;
\* after extractions under h1 and then h2 the paper is returned for h1 and not
\* for h2, and a paper without extraction is never returned.
C10_StaleIsLatestRule ==
    last.op = "get_stale_extractions"
    => \A p \in 1..(MaxExtractPapers + 1) :
          LET hist == C10_History(extractions, p, 1)
          IN /\ p \in last.rows
                <=> /\ p \in PaperIds(papers)
                    /\ hist # <<>>
                    /\ hist[Len(hist)] # last.arg
             /\ ( /\ Len(hist) >= 2
                  /\ hist[Len(hist) - 1] = "h1"
                  /\ hist[Len(hist)] = "h2" )
                => /\ last.arg = "h1" => p \in last.rows
                   /\ last.arg = "h2" => p \notin last.rows

C10_Witness ==
    /\ last.op = "get_stale_extractions"
    /\ last.arg = "h1"
    /\ last.rows = {1}
    /\ Len(papers) = 2
    /\ C10_History(extractions, 1, 1) = <<"h1", "h2">>
    /\ C10_History(extractions, 2, 1) = <<"h1">>

----------------------------------------------------------------------------
(* Claims about run_extraction, checked under SpecRunExtract *)

\* no paper has two extraction rows under one schema hash
C11_NoTwoRows(es) ==
    \A j, k \in 1..Len(es) :
        (/\ es[j].paper_id = es[k].paper_id
         /\ es[j].extraction_schema_hash = es[k].extraction_schema_hash)
        => j = k

\* the loop is at a paper that has an extraction under the run's hash
C11_AlreadyExtracted ==
    /\ ext.pc = "loop"
    /\ \E k \in 1..Len(extractions) :
          /\ extractions[k].paper_id = ext.queue[ext.i]
          /\ extractions[k].extraction_schema_hash = ext.schema_hash

C11_Step ==
    /\ C11_NoTwoRows(extractions')
    /\ C11_AlreadyExtracted =>
          /\ ext'.skipped = ext.skipped + 1
          /\ ext'.i = ext.i + 1
          /\ extractions' = extractions
          /\ spans' = spans

\* C11: whatever run_extraction invocations have happened, under whichever
\* hashes and with failing or succeeding model calls, no paper has two
\* extraction rows with the same schema hash; a PARSED paper that has an
\* extraction under the current hash is counted as skipped and gets no new
\* extraction row and no evidence span
C11_OneExtractionPerHash == [][C11_Step]_vars

\* a run has skipped a PARSED paper that kept the extraction row of an
\* earlier, failed attempt under the same hash
C11_Witness ==
    /\ ext.pc = "done"
    /\ ext.skipped = 1
    /\ \E k \in 1..Len(extractions) :
          /\ papers[extractions[k].paper_id].status = "PARSED"
          /\ extractions[k].extraction_schema_hash = ext.schema_hash


\* C12: when a run_extraction invocation under hash H ends and nothing has
\* failed in it, every paper that get_stale_extractions(H) returned before
\* the run (its latest extraction is under another hash) has an extraction
\* under H
C12_StaleReExtracted ==
    (ext.pc = "done" /\ ext.failed = 0) =>
        \A pid \in ext.stale :
            \E k \in 1..Len(extractions) :
                /\ extractions[k].paper_id = pid
                /\ extractions[k].extraction_schema_hash = ext.schema_hash

----------------------------------------------------------------------------
(* Claims about evidence spans, checked under SpecSpans *)

C13_Step ==
    /\ \A k \in (Len(spans) + 1)..Len(spans') :
          spans'[k].audit_status = "pending"
    /\ \A k \in 1..Len(spans) :
          spans[k].audit_status \in {"verified", "flagged"}
          => spans'[k].audit_status # "pending"

\* C13: an evidence span is created pending, and a span that update_audit
\* has set to verified or flagged is not made pending again by any store
\* call: add_evidence_span, update_audit with a status the store accepts,
\* update_status, add_extraction
C13_AuditNeverReverts == [][C13_Step]_vars

----------------------------------------------------------------------------
(* Claims about deduplicate, checked under SpecDedup *)

\* the step is one turn of the loop over the secondary list
SecondaryTurn == dd'.openalex_total = dd.openalex_total + 1

\* the citation's identifier is a key of the index as the turn begins
DoiIndexed(cit) == TruthyS(cit.doi) /\ DoiKey(cit.doi) \in DOMAIN dd.doi_index

PmidIndexed(cit) ==
    TruthyS(cit.pmid) /\ PmidKey(cit.pmid) \in DOMAIN dd.pmid_index

\* the records whose stored title is a fuzzy match of the citation's
TitleMatches(cit) ==
    {dd.title_index[k][2] :
        k \in {j \in 1..Len(dd.title_index) :
                  Similar(normalize_title(cit.title), dd.title_index[j][1])}}

\* the turn has merged the citation into record idx
MergedInto(idx) ==
    /\ idx \in 1..Len(dd.unique)
    /\ dd'.match_idx = idx
    /\ Len(dd'.unique) = Len(dd.unique)
    /\ \A k \in 1..Len(dd.unique) : k # idx => dd'.unique[k] = dd.unique[k]
    /\ Len(dd'.duplicate_pairs) = Len(dd.duplicate_pairs) + 1

\* the turn has appended the citation
AppendedNew ==
    /\ dd'.match_idx = 0
    /\ dd'.unique = Append(dd.unique, dd'.cit)
    /\ dd'.duplicate_pairs = dd.duplicate_pairs

C14_Step ==
    SecondaryTurn =>
        LET cit == dd'.cit
        IN IF DoiIndexed(cit)
           THEN MergedInto(dd.doi_index[DoiKey(cit.doi)])
           ELSE IF PmidIndexed(cit)
           THEN MergedInto(dd.pmid_index[PmidKey(cit.pmid)])
           ELSE IF TitleMatches(cit) # {}
           THEN \E idx \in TitleMatches(cit) : MergedInto(idx)
           ELSE AppendedNew

\* C14: a secondary citation is matched in priority order and the first
\* hit wins: when its trimmed, lower-cased DOI is indexed it is merged into
\* the record indexed under it, whatever its PMID and title match; only
\* otherwise is its trimmed PMID tried, and only otherwise the fuzzy title
C14_MatchPriority == [][C14_Step]_vars

\* a secondary citation went to the record of its DOI while another record
\* carries its PMID
C14_Witness ==
    /\ dd.pc = "secondary"
    /\ dd.match_idx # 0
    /\ TruthyS(dd.cit.doi) /\ TruthyS(dd.cit.pmid)
    /\ DoiKey(dd.unique[dd.match_idx].doi) = DoiKey(dd.cit.doi)
    /\ \E j \in 1..Len(dd.unique) :
          /\ j # dd.match_idx
          /\ dd.unique[j].doi = NoneS
          /\ TruthyS(dd.unique[j].pmid)
          /\ PmidKey(dd.unique[j].pmid) = PmidKey(dd.cit.pmid)

C15_Step ==
    /\ SecondaryTurn =>
          \/ /\ Len(dd'.unique) = Len(dd.unique)
             /\ Len(dd'.duplicate_pairs) = Len(dd.duplicate_pairs) + 1
             /\ dd'.duplicate_pairs[Len(dd'.duplicate_pairs)][2] = dd'.cit.title
          \/ /\ dd'.unique = Append(dd.unique, dd'.cit)
             /\ dd'.duplicate_pairs = dd.duplicate_pairs
    /\ dd'.pc = "done" =>
          /\ dd'.stats.duplicates_found = Len(dd'.duplicate_pairs)
          /\ dd'.stats.unique_total = Len(dd'.unique)
          /\ dd'.stats.unique_total + dd'.stats.duplicates_found
                = dd'.stats.pubmed_total + dd'.stats.openalex_total

\* C15: the stats deduplicate returns count the pairs logged and the
\* records kept, and unique_total + duplicates_found = pubmed_total +
\* openalex_total; every secondary citation is either merged, with one pair
\* logged, or appended, never both and never neither
C15_StatsAddUp == [][C15_Step]_vars

\* a call has returned with a merged and an appended secondary citation
C15_Witness ==
    /\ dd.pc = "done"
    /\ dd.stats.duplicates_found = 1
    /\ dd.stats.openalex_total = 2
    /\ dd.stats.unique_total = 2


\* record idx is indexed under the citation's DOI, PMID and title
C17_IndexedAs(frame, cit, idx) ==
    /\ TruthyS(cit.doi) =>
          /\ DoiKey(cit.doi) \in DOMAIN frame.doi_index
          /\ frame.doi_index[DoiKey(cit.doi)] = idx
    /\ TruthyS(cit.pmid) =>
          /\ PmidKey(cit.pmid) \in DOMAIN frame.pmid_index
          /\ frame.pmid_index[PmidKey(cit.pmid)] = idx
    /\ \E k \in 1..Len(frame.title_index) :
          frame.title_index[k] = <<normalize_title(cit.title), idx>>

\* as the turn begins, the citation has the DOI, the PMID, a matching title
\* that record idx was indexed under
C17_SameDoi(cit, idx) == DoiIndexed(cit) /\ dd.doi_index[DoiKey(cit.doi)] = idx

C17_SamePmid(cit, idx) ==
    PmidIndexed(cit) /\ dd.pmid_index[PmidKey(cit.pmid)] = idx

C17_MatchingTitle(cit, idx) == idx \in TitleMatches(cit)

\* the records that secondary citations were appended as
C17_Appended == {idx \in 1..Len(dd.unique) : dd.unique[idx].source = "openalex"}

C17_Original_Step ==
    SecondaryTurn =>
        /\ AppendedNew => C17_IndexedAs(dd', dd'.cit, Len(dd'.unique))
        /\ \A idx \in C17_Appended :
              (\/ C17_SameDoi(dd'.cit, idx)
               \/ C17_SamePmid(dd'.cit, idx)
               \/ C17_MatchingTitle(dd'.cit, idx))
              => MergedInto(idx)

\* C17: a secondary citation that matches nothing is appended and indexed
\* under its DOI, its PMID and its normalised title, and a later citation
\* of the secondary list with the same normalised DOI, the same trimmed
\* PMID or a matching title is merged into it instead of being appended
C17_LaterSecondaryMergesIntoIt == [][C17_Original_Step]_vars

C17_Amended_Step ==
    SecondaryTurn =>
        /\ AppendedNew => C17_IndexedAs(dd', dd'.cit, Len(dd'.unique))
        /\ \A idx \in C17_Appended :
              /\ (\/ C17_SameDoi(dd'.cit, idx)
                  \/ C17_SamePmid(dd'.cit, idx)
                  \/ C17_MatchingTitle(dd'.cit, idx))
                 => \E j \in 1..Len(dd.unique) : MergedInto(j)
              /\ C17_SameDoi(dd'.cit, idx) => MergedInto(idx)
              /\ (C17_SamePmid(dd'.cit, idx) /\ ~DoiIndexed(dd'.cit))
                 => MergedInto(idx)
              /\ (/\ TitleMatches(dd'.cit) = {idx}
                  /\ ~DoiIndexed(dd'.cit) /\ ~PmidIndexed(dd'.cit))
                 => MergedInto(idx)

\* C17 as amended: such a later citation is never appended; it is merged
\* into that record when they share the DOI, when they share the PMID and
\* the later citation's DOI is not indexed, and when only that record's
\* title matches and neither identifier of the later citation is indexed;
\* otherwise it is merged into the record its higher-priority key finds
C17_LaterSecondaryIsMerged == [][C17_Amended_Step]_vars

\* a secondary citation has been merged, by its PMID, into a record that
\* an earlier secondary citation was appended as
C17_Witness ==
    /\ dd.pc = "secondary"
    /\ dd.match_idx # 0
    /\ dd.unique[dd.match_idx].source = "openalex"
    /\ dd.cit.doi = NoneS
    /\ TruthyS(dd.cit.pmid)
    /\ PmidKey(dd.unique[dd.match_idx].pmid) = PmidKey(dd.cit.pmid)
    /\ ~Similar(normalize_title(dd.cit.title),
                normalize_title(dd.unique[dd.match_idx].title))


\* no two records of the list share a normalised DOI or a trimmed PMID
C18_Distinct(list) ==
    \A j, k \in 1..Len(list) :
        j # k =>
            /\ ~(/\ TruthyS(list[j].doi) /\ TruthyS(list[k].doi)
                 /\ DoiKey(list[j].doi) = DoiKey(list[k].doi))
            /\ ~(/\ TruthyS(list[j].pmid) /\ TruthyS(list[k].pmid)
                 /\ PmidKey(list[j].pmid) = PmidKey(list[k].pmid))

\* a primary list whose records share no identifier is a unique list that
\* shares none when the second loop begins, so the claim is that a turn of
\* the second loop keeps it so
C18_Step == (SecondaryTurn /\ C18_Distinct(dd.unique)) => C18_Distinct(dd'.unique)

\* C18: when no two records of the primary list share a normalised DOI or
\* a trimmed PMID, no two records of unique_citations share one, whatever
\* the secondary list, also when a merge back-fills a DOI or a PMID
C18_UniqueIdentifiers == [][C18_Step]_vars

----------------------------------------------------------------------------
(* Claims about _merge, checked under SpecMerge *)

\* the fields _merge may take from the secondary citation
C16_Fillable == {"doi", "pmid", "abstract", "journal", "year", "authors"}

\* neither None nor empty
C16_Populated(v) == v # NoneS /\ v # <<>>

C16_Step ==
    (SecondaryTurn /\ dd'.match_idx # 0) =>
        LET kept == dd.unique[dd'.match_idx]
            merged == dd'.unique[dd'.match_idx]
            secondary == dd'.cit
        IN /\ merged.title = kept.title
           /\ merged.source = kept.source
           /\ \A f \in C16_Fillable :
                 /\ C16_Populated(kept[f]) => merged[f] = kept[f]
                 /\ merged[f] # kept[f] =>
                       /\ ~C16_Populated(kept[f])
                       /\ merged[f] = secondary[f]

\* C16: a merge leaves every populated field of the kept record as it was,
\* title and source included, and takes from the secondary citation only
\* fields among doi, pmid, abstract, journal, year, authors that were None
\* or empty in the kept record; as this holds of every merge, the first
\* secondary value that fills a gap stays through the merges that follow
C16_MergeKeepsPrimary == [][C16_Step]_vars

\* a second merge into a record whose abstract and authors the first merge
\* filled: the second citation brings other values and the first ones stay
C16_Witness ==
    /\ Len(dd.duplicate_pairs) = 2
    /\ dd.match_idx = 1
    /\ dd.unique[1].source = "pubmed"
    /\ dd.unique[1].abstract = <<"x">> /\ dd.cit.abstract = <<"y">>
    /\ dd.unique[1].authors = <<"X">> /\ dd.cit.authors = <<"Y">>

----------------------------------------------------------------------------
(* Claims about the protocol hashes, checked under SpecReview *)

\* the first spec with the screening criteria, or the extraction schema,
\* of the given one: a spec that shares that section and nothing else
\* that the edits have touched
C19_BaseWithCriteria(spec) ==
    [BaseSpec EXCEPT !.screening_criteria = spec.screening_criteria]

C19_BaseWithSchema(spec) ==
    [BaseSpec EXCEPT !.extraction_schema = spec.extraction_schema]

\* for two specs, each hash is the same exactly when its section is
C19_Agree(a, b) ==
    /\ (a.screening_criteria = b.screening_criteria)
       <=> (screening_hash(a) = screening_hash(b))
    /\ (a.extraction_schema = b.extraction_schema)
       <=> (extraction_hash(a) = extraction_hash(b))

C19_Step ==
    /\ C19_Agree(rspec, rspec')
    /\ C19_Agree(BaseSpec, rspec')
    /\ C19_Agree(C19_BaseWithCriteria(rspec'), rspec')
    /\ C19_Agree(C19_BaseWithSchema(rspec'), rspec')

\* C19: screening_hash() depends on the screening criteria only and
\* extraction_hash() on the extraction schema only: review specs with the
\* same screening criteria have the same screening hash whatever their
\* other sections hold; an edit of the screening criteria changes
\* screening_hash() and leaves extraction_hash() as it was; and the same
\* with the extraction schema and extraction_hash() in their place
C19_HashesFollowOwnSection == [][C19_Step]_vars

\* the screening criteria have been edited, the other sections too or not:
\* against the first spec the screening hash differs and the extraction
\* hash is the same exactly when the schema is
C19_Witness ==
    /\ rspec.screening_criteria # BaseSpec.screening_criteria
    /\ rspec.extraction_schema = BaseSpec.extraction_schema
    /\ rspec.title # BaseSpec.title
    /\ rspec.version # BaseSpec.version
    /\ screening_hash(rspec) # screening_hash(BaseSpec)
    /\ extraction_hash(rspec) = extraction_hash(BaseSpec)

----------------------------------------------------------------------------
(* Claims about failing collaborators, checked under SpecScreen *)

\* a run of run_screening that is at a paper either goes on with its
\* snapshot or has finished it
C20_Step ==
    scr.pc \in {"pass1", "pass2"} => scr'.pc \in {"pass1", "pass2", "done"}

\* C20: when the model call for one paper fails inside a stage runner, the
\* runner catches the failure, counts it, leaves the paper in its status
\* and goes on with the remaining papers: no step at a paper ends the run
\* short of its snapshot
C20_RunnerSurvivesFailure == [][C20_Step]_vars

----------------------------------------------------------------------------
(* Claims about the stage runners together, checked under SpecStages *)

\* the statuses a paper may have once it has had one of the statuses S
RECURSIVE Reach(_)
Reach(S) ==
    LET next == S \cup UNION {ALLOWED_TRANSITIONS[s] : s \in S}
    IN IF next = S THEN S ELSE Reach(next)

\* the stage runners: the status each one selects and the statuses it
\* hands to update_status
Runners == {"run_screening", "parse_all_pdfs", "run_extraction", "run_audit"}

RunnerInput(r) ==
    CASE r = "run_screening" -> "INGESTED"
      [] r = "parse_all_pdfs" -> "PDF_ACQUIRED"
      [] r = "run_extraction" -> "PARSED"
      [] r = "run_audit" -> "EXTRACTED"

RunnerTargets(r) ==
    CASE r = "run_screening" -> {"SCREENED_IN", "SCREENED_OUT", "SCREEN_FLAGGED"}
      [] r = "parse_all_pdfs" -> {"PARSED"}
      [] r = "run_extraction" -> {"EXTRACTED"}
      [] r = "run_audit" -> {"AUDITED"}

\* the statuses of a paper that runner r has transitioned
C21_After == [r \in Runners |-> Reach(RunnerTargets(r))]

\* the rows that belong to paper p: its screening decisions, its assets,
\* its extractions, and the spans of its extractions with their verdicts
C21_Rows(ds, as, es, sp, p) ==
    [decisions |-> {k \in 1..Len(ds) : ds[k].paper_id = p},
     assets |-> AssetsOf(as, p),
     extractions |-> ExtractionsOf(es, p),
     spans |-> {<<k, sp[k].audit_status>> :
                  k \in {j \in 1..Len(sp) :
                            sp[j].extraction_id \in ExtractionsOf(es, p)}}]

\* C21: a paper that a runner has transitioned has one of the statuses
\* that follow the runner's targets, from then on (first two conjuncts);
\* a step of that runner, in this or a later invocation, changes neither
\* the status nor the rows of a paper with such a status (third conjunct)
C21_Step ==
    LET stepping == [r \in Runners |->
                        CASE r = "run_screening" -> scr' # scr
                          [] r = "parse_all_pdfs" -> par' # par
                          [] r = "run_extraction" -> ext' # ext
                          [] r = "run_audit" -> aud' # aud]
    IN \A r \in Runners, p \in 1..Len(papers) :
          /\ (stepping[r] /\ papers'[p].status # papers[p].status)
                => /\ papers[p].status = RunnerInput(r)
                   /\ papers'[p].status \in RunnerTargets(r)
          /\ papers[p].status \in C21_After[r]
                => papers'[p].status \in C21_After[r]
          /\ (stepping[r] /\ papers[p].status \in C21_After[r])
                => /\ papers'[p].status = papers[p].status
                   /\ C21_Rows(decisions', assets', extractions', spans', p)
                         = C21_Rows(decisions, assets, extractions, spans, p)

\* C21: re-invoking a stage runner never changes the status of a paper an
\* earlier invocation of the same runner transitioned, and adds no
\* screening decision, asset row, extraction, evidence span or audit
\* verdict for such a paper.
C21_RunnersIdempotent == [][C21_Step]_vars

\* run_audit, invoked again after it took a paper to AUDITED, has reached
\* its end with nothing in its snapshot
C21_Witness ==
    /\ aud.pc = "done"
    /\ aud.queue = <<>>
    /\ \E p \in 1..Len(papers) : papers[p].status = "AUDITED"

----------------------------------------------------------------------------
(* Claims about run_pipeline, checked under SpecPipeline *)

\* the stage whose work a step does, 0 for a step that does no stage's
\* work: papers are added by search, and each runner's frame moves in its
\* own stage
C22_Working ==
    IF Len(papers') > Len(papers) THEN 1
    ELSE IF scr' # scr THEN 2
    ELSE IF par' # par THEN 3
    ELSE IF ext' # ext THEN 4
    ELSE IF aud' # aud THEN 5
    ELSE IF last'.op = "export_all" THEN 6
    ELSE 0

\* C22: work is done for the stage at hand only, the stages at hand follow
\* STAGES, and "results" holds the stages from skip_to to the one before
\* the stage at hand; a stage that raised is followed by the end of
\* run_pipeline, which raises with the run marked failed; run_pipeline
\* returns with every stage from skip_to on in "results" and the run marked
\* completed, and raises only after a stage raised
C22_Step ==
    /\ C22_Working # 0
          => /\ run.pc = "try"
             /\ run.stage = C22_Working
             /\ run.start_idx < run.stage
    /\ (run.pc = "try" /\ run'.pc = "try")
          => run'.stage \in {run.stage, run.stage + 1}
    /\ run'.pc = "try"
          => /\ run'.start_idx = IF Truthy(run'.skip_to)
                                 THEN StageIndex(run'.skip_to) ELSE 0
             /\ run'.results =
                   SubSeq(STAGES, run'.start_idx + 1, run'.stage - 1)
    /\ (run.pc = "try" /\ last.result = "raised")
          => /\ C22_Working = 0
             /\ run'.pc = "idle"
             /\ last' = Call("run_pipeline", 0, run.skip_to, <<>>, "raised",
                             run.run_id)
             /\ run'.runs[run.run_id] = "failed"
    /\ (run.pc = "try" /\ run'.pc = "idle")
          => \/ /\ last.result = "raised"
                /\ last'.result = "raised"
             \/ /\ last.op = "none"
                /\ last' = Call("run_pipeline", 0, run.skip_to, <<>>, "ok",
                                run.run_id)
                /\ run.results = SubSeq(STAGES, run.start_idx + 1, Len(STAGES))
                /\ run'.runs[run.run_id] = "completed"

\* C22: run_pipeline runs the stages from skip_to onwards in the order
\* search, screen, parse, extract, audit, export; if a stage raises, no
\* later stage runs, the run record is marked failed and the exception
\* propagates; if no stage raises, the run record is marked completed.
C22_StagesInOrder == [][C22_Step]_vars

\* a run that failed and a later run from "parse" on that returned, with a
\* paper taken to AUDITED
C22_Witness ==
    /\ last.op = "run_pipeline"
    /\ last.result = "ok"
    /\ last.arg = "parse"
    /\ run.runs = <<"failed", "completed">>
    /\ \E p \in 1..Len(papers) : papers[p].status = "AUDITED"

\* C29: whenever run_pipeline has exited, by returning, by raising or by
\* exiting on an invalid skip_to value, the review-run record it created
\* has status completed or failed, never running.
C29_RunRecordSettled ==
    last.op = "run_pipeline"
        => run.runs[last.ret] \in {"completed", "failed"}

----------------------------------------------------------------------------
(* Claims about resuming run_extraction, checked under SpecResume *)

\* C23: if a run_extraction invocation is ended by process termination at
\* any point, re-invoking run_extraction with the same spec, parsed text
\* present and model calls succeeding brings every paper that is still
\* PARSED to EXTRACTED with its evidence spans stored: an invocation that
\* returns with failed = 0 leaves every paper of its snapshot EXTRACTED.
C23_Step ==
    (ext.pc = "done" /\ ext'.pc = "idle" /\ last'.op = "run_extraction"
        /\ ext.failed = 0)
        => \A k \in 1..Len(ext.queue) :
              papers[ext.queue[k]].status = "EXTRACTED"

C23_ResumeCompletes == [][C23_Step]_vars

----------------------------------------------------------------------------
(* Claims about the auditor *)

\* C24: audit_span decides in a fixed order.  A span whose value is
\* "NOT_FOUND" is verified with neither grep nor model call; otherwise a
\* snippet that grep_verify does not locate in the paper text is flagged
\* with grep_found false and no model call; otherwise the model is called
\* and the verdict carries its status with grep_found forced to true.
C24_Step ==
    (aud.pc = "spans" /\ aud'.pc = "spans" /\ Len(aud'.todo) < Len(aud.todo))
        => LET value == aud'.span_data.value
               located == GrepVerify(aud'.span_data.source_snippet,
                                     aud.paper_text)
               verdict == aud'.verdict
           IN /\ value = "NOT_FOUND" =>
                    /\ verdict.status = "verified"
                    /\ ~verdict.grep_found
                    /\ ~verdict.called
              /\ (value # "NOT_FOUND" /\ ~located) =>
                    /\ verdict.status = "flagged"
                    /\ ~verdict.grep_found
                    /\ ~verdict.called
              /\ (value # "NOT_FOUND" /\ located) =>
                    /\ verdict.called
                    /\ verdict.grep_found
                    /\ verdict.status \in {"verified", "flagged"}
              /\ spans'[aud'.span_data.id].audit_status = verdict.status

C24_AuditSpanOrder == [][C24_Step]_vars

\* a span with a near copy of the text as its snippet went to the model,
\* which flagged it
C24_Witness ==
    /\ aud.pc = "spans"
    /\ aud.span_data.id # 0
    /\ aud.span_data.source_snippet = <<"a", "b", "c", "d", "e", "f", "x">>
    /\ aud.verdict = Verdict("flagged", TRUE, TRUE)
    /\ spans[aud.span_data.id].audit_status = "flagged"

\* C25: run_audit moves a paper from EXTRACTED to AUDITED only when the
\* paper has parsed text and an extraction and every span of its latest
\* extraction has left "pending" for "verified" or "flagged"; a paper
\* without parsed text or without an extraction is passed over: it stays
\* EXTRACTED and papers_audited does not count it.
C25_Step ==
    /\ \A pid \in 1..Len(papers) :
          (papers'[pid].status = "AUDITED" /\ papers[pid].status # "AUDITED")
              => /\ papers[pid].status = "EXTRACTED"
                 /\ PaperHasText(pid)
                 /\ LatestExtraction(extractions, pid) # 0
                 /\ \A k \in 1..Len(spans') :
                       spans'[k].extraction_id
                           = LatestExtraction(extractions, pid)
                         => spans'[k].audit_status \in {"verified", "flagged"}
                 /\ aud'.papers_audited = aud.papers_audited + 1
    /\ (/\ aud.pc = "loop"
        /\ \/ ~PaperHasText(aud.queue[aud.i])
           \/ LatestExtraction(extractions, aud.queue[aud.i]) = 0)
          => /\ papers' = papers
             /\ papers[aud.queue[aud.i]].status = "EXTRACTED"
             /\ aud'.papers_audited = aud.papers_audited
             /\ aud'.i = aud.i + 1

C25_AuditedAfterVerdicts == [][C25_Step]_vars

\* run_audit returned having audited the one span of a paper, now AUDITED
C25_Witness ==
    /\ last.op = "run_audit"
    /\ last.result = "ok"
    /\ last.ret = 1
    /\ \E pid \in 1..Len(papers) :
          /\ papers[pid].status = "AUDITED"
          /\ \E k \in 1..Len(spans) :
                /\ spans[k].extraction_id = LatestExtraction(extractions, pid)
                /\ spans[k].audit_status = "flagged"

\* C28: in the stats of run_audit every span counted in grep_failures is
\* also counted in spans_flagged, so grep_failures never exceeds
\* spans_flagged.
C28_GrepFailuresFlagged == aud.grep_failures <= aud.spans_flagged

----------------------------------------------------------------------------
(* Claims about the status graph, checked under SpecLifecycle *)

\* the most transitions a walk from status s can make, counted up to n
RECURSIVE Walk(_, _)
Walk(s, n) ==
    IF n = 0 \/ ALLOWED_TRANSITIONS[s] = {} THEN 0
    ELSE 1 + Max({Walk(t, n - 1) : t \in ALLOWED_TRANSITIONS[s]})

\* the transitions a paper in status s can still make; a graph of eight
\* statuses with a cycle has a walk of eight transitions
C26_Left == [s \in STATUSES |-> Walk(s, Cardinality(STATUSES))]

\* C26: the status graph has no cycle and no self-loop.  A paper starts
\* INGESTED with at most six transitions ahead of it, every successful
\* update_status leaves it with fewer than before, so at most six succeed
\* and no status is entered twice, and asking again for the target of a
\* successful call is refused.
C26_Step ==
    /\ C26_Left["INGESTED"] = 6
    /\ \A pid \in (Len(papers) + 1)..Len(papers') :
          papers'[pid].status = "INGESTED"
    /\ (last'.op = "update_status" /\ last'.result = "ok")
          => LET pid == last'.pid
             IN /\ papers'[pid].status = last'.arg
                /\ C26_Left[papers'[pid].status] < C26_Left[papers[pid].status]
                /\ UpdateStatusResult(papers', pid, last'.arg, clock').result
                       = "InvalidTransition"

C26_StatusGraphAcyclic == [][C26_Step]_vars

\* the one paper has made the six transitions of the longest path and a
\* seventh call, for AUDITED again, was refused
C26_Witness ==
    /\ Len(papers) = 1
    /\ clock = 7
    /\ papers[1].status = "AUDITED"
    /\ last.op = "update_status"
    /\ last.arg = "AUDITED"
    /\ last.result = "InvalidTransition"

----------------------------------------------------------------------------
(* Claims about extraction rows and statuses, checked under SpecStages *)

\* C27: when only run_extraction and run_audit issue the transitions to
\* EXTRACTED and AUDITED, each paper that is EXTRACTED or AUDITED has at
\* least one extraction row, and each paper that has an extraction row is
\* PARSED, EXTRACTED or AUDITED.
C27_ExtractionRowsMatchStatus ==
    /\ \A pid \in 1..Len(papers) :
          papers[pid].status \in {"EXTRACTED", "AUDITED"}
              => ExtractionsOf(extractions, pid) # {}
    /\ \A e \in 1..Len(extractions) :
          /\ extractions[e].paper_id \in 1..Len(papers)
          /\ papers[extractions[e].paper_id].status
                 \in {"PARSED", "EXTRACTED", "AUDITED"}

\* run_extraction stored a row and then failed on a span: the paper has an
\* extraction row and is still PARSED
C27_Witness ==
    /\ ext.failed = 1
    /\ \E pid \in 1..Len(papers) :
          /\ papers[pid].status = "PARSED"
          /\ ExtractionsOf(extractions, pid) # {}

----------------------------------------------------------------------------
(* Claims about parsed-text versions, checked under SpecText *)

\* C30: whatever the number of parsed-text versions a paper has,
\* run_extraction and run_audit read the file of the paper's highest
\* version, the one written by the latest parse_pdf call that made a new
\* version.
C30_Step ==
    /\ (ExtractTries /\ ext'.pc # "idle")
          => ext'.md_file = Max(MdVersions(assets, ext.queue[ext.i]))
    /\ (aud.pc = "loop" /\ PaperHasText(aud.queue[aud.i]))
          => aud'.md_file = Max(MdVersions(assets, aud.queue[aud.i]))

C30_ReadsHighestVersion == [][C30_Step]_vars

=============================================================================
